---- MODULE Spec2Model ----
(***************************************************************************)
(* Swedish word-form lexicon: the offline compiler (scripts/saldo_parser)  *)
(* and the lookup service (services/dictionary_service).                   *)
(*                                                                         *)
(* A Python str is a sequence of one-character strings, so that lower(),   *)
(* strip(), slicing, startswith/endswith and substring tests are computed. *)
(* A Python dict is a sequence of [key, val] pairs in insertion order.     *)
(* A Python dict used as a record (an entry, a raw feature map) is a TLA+  *)
(* record whose domain is the set of keys present.                         *)
(***************************************************************************)
EXTENDS Integers, Sequences, FiniteSets, TLC

VARIABLES
    raw,              \* the FormRepresentation feature maps of data/saldo.xml, in document order
    pc,               \* position of the build-then-serve run
    idx,              \* loop position of the compiler's current loop
    all_entries,      \* parse_saldo_final: word -> list of raw feature maps
    dictionary,       \* parse_saldo_final: the lexicon being compiled
    pending,          \* arguments of the add_inflected_forms call about to run
    data,             \* SwedishDictionary.data
    strong_verbs,     \* SwedishDictionary.strong_verbs
    ambiguous_words,  \* SwedishDictionary.ambiguous_words
    result,           \* the last call made on the service and what it returned
    ordinals,         \* SwedishDictionary.ordinals
    files,            \* the table files under data/ as the service's start finds them
    reported_words,   \* the file data/reported_words.json
    handlers,         \* the handle_report coroutines: position and local variables of each
    log_at_start      \* data/reported_words.json as it was before any report was handled

vars == <<raw, pc, idx, all_entries, dictionary, pending, data, strong_verbs,
          ambiguous_words, result, ordinals, files, reported_words, handlers,
          log_at_start>>

report_vars == <<reported_words, handlers, log_at_start>>

----------------------------------------------------------------------------
(* Bounds of the model *)

\* longest input: number of FormRepresentation elements in the XML
MaxEntries == 2

\* largest limit passed to get_suggestions
MaxLimit == 2

\* number of handle_report coroutines the event loop has in flight together
MaxHandlers == 2

----------------------------------------------------------------------------
(* Python str operations *)

UpperChars == <<"A", "B", "C", "D", "E", "F", "G", "H", "I", "J", "K", "L", "M", "N", "O", "P", "Q", "R", "S", "T", "U", "V", "W", "X", "Y", "Z", "Å", "Ä", "Ö">>

LowerChars == <<"a", "b", "c", "d", "e", "f", "g", "h", "i", "j", "k", "l", "m", "n", "o", "p", "q", "r", "s", "t", "u", "v", "w", "x", "y", "z", "å", "ä", "ö">>

LowerChar(c) ==
    IF \E i \in DOMAIN UpperChars : UpperChars[i] = c
    THEN LowerChars[CHOOSE i \in DOMAIN UpperChars : UpperChars[i] = c]
    ELSE c

\* str.lower()
Lower(s) == [i \in 1..Len(s) |-> LowerChar(s[i])]

IsSpace(c) == c \in {" ", "\t", "\n"}

RECURSIVE LStrip(_)
LStrip(s) == IF s /= <<>> /\ IsSpace(s[1]) THEN LStrip(Tail(s)) ELSE s

RECURSIVE RStrip(_)
RStrip(s) ==
    IF s /= <<>> /\ IsSpace(s[Len(s)]) THEN RStrip(SubSeq(s, 1, Len(s) - 1)) ELSE s

\* str.strip()
Strip(s) == RStrip(LStrip(s))

\* s.startswith(p)
StartsWith(s, p) == Len(p) <= Len(s) /\ SubSeq(s, 1, Len(p)) = p

\* s.endswith(p)
EndsWith(s, p) == Len(p) <= Len(s) /\ SubSeq(s, Len(s) - Len(p) + 1, Len(s)) = p

\* sub in s
Contains(s, sub) ==
    \E i \in 0..(Len(s) - Len(sub)) : SubSeq(s, i + 1, i + Len(sub)) = sub

\* s[:n], n >= 0
Prefix(s, n) == SubSeq(s, 1, IF n < Len(s) THEN n ELSE Len(s))

\* s[:-n], n > 0
DropLast(s, n) == SubSeq(s, 1, Len(s) - n)

\* s.replace(a, b) for one-character a and b
Replace(s, a, b) == [i \in 1..Len(s) |-> IF s[i] = a THEN b ELSE s[i]]

----------------------------------------------------------------------------
(* Python dict operations (insertion-ordered) *)

Keys(d) == {d[i].key : i \in DOMAIN d}

\* k in d
Has(d, k) == k \in Keys(d)

\* d[k]
Get(d, k) == d[CHOOSE i \in DOMAIN d : d[i].key = k].val

\* d[k] = v: an existing key keeps its position, a new key goes last
Put(d, k, v) ==
    IF Has(d, k)
    THEN [i \in DOMAIN d |-> IF d[i].key = k THEN [key |-> k, val |-> v] ELSE d[i]]
    ELSE Append(d, [key |-> k, val |-> v])

\* e.get(f, default) on a feature map
Feat(e, f, default) == IF f \in DOMAIN e THEN e[f] ELSE default

----------------------------------------------------------------------------
(* scripts/saldo_parser.py: classification *)

\* Python None
None == [none |-> TRUE]

\* get_word_type(pos)
get_word_type(pos) ==
    LET base == IF \/ StartsWith(pos, <<"v", "b", "m">>) \/ StartsWith(pos, <<"n", "n", "m">>)
                   \/ StartsWith(pos, <<"a", "v", "m">>) \/ StartsWith(pos, <<"a", "b", "m">>)
                THEN Prefix(pos, 3) ELSE Prefix(pos, 2)
    IN CASE base = <<"n", "n">> -> "noun"
         [] base = <<"v", "b">> -> "verb"
         [] base = <<"a", "v">> -> "adjective"
         [] base = <<"p", "m">> -> "proper_noun"
         [] base = <<"a", "b">> -> "adverb"
         [] base = <<"p", "p">> -> "preposition"
         [] base = <<"p", "n">> -> "pronoun"
         [] base = <<"i", "n">> -> "interjection"
         [] base = <<"v", "b", "m">> -> "verb"
         [] base = <<"n", "n", "m">> -> "noun"
         [] base = <<"a", "v", "m">> -> "adjective"
         [] base = <<"a", "b", "m">> -> "adverb"
         [] base = <<"n", "l">> -> "numeral"
         [] OTHER -> "unknown"

\* get_gender(paradigm)
get_gender(paradigm) ==
    IF Contains(paradigm, <<"n", "n", "_", "6">>) THEN "ett"
    ELSE IF Contains(paradigm, <<"n", "n", "_", "5", "n">>) THEN "ett"
    ELSE IF Contains(paradigm, <<"_", "n", "_">>) \/ EndsWith(paradigm, <<"_", "n">>) THEN "ett"
    ELSE "en"

\* get_group(paradigm, pos)
get_group(paradigm, pos) ==
    IF StartsWith(pos, <<"n", "n">>) THEN
        IF Contains(paradigm, <<"_", "0">>) THEN "Uncountable"
        ELSE IF Contains(paradigm, <<"_", "1">>) THEN "Declension 1 (en, -or)"
        ELSE IF Contains(paradigm, <<"_", "2">>) THEN "Declension 2 (en, -ar)"
        ELSE IF Contains(paradigm, <<"_", "3">>) THEN "Declension 3 (en, -er)"
        ELSE IF Contains(paradigm, <<"_", "5", "n">>) THEN "Declension 4 (ett, -n)"
        ELSE IF Contains(paradigm, <<"_", "6">>) THEN "Declension 5 (ett, no change)"
        ELSE IF Contains(paradigm, <<"_", "4">>) \/ Contains(paradigm, <<"_", "5">>)
             THEN "Declension variant"
        ELSE ""
    ELSE IF StartsWith(pos, <<"v", "b">>) THEN
        IF paradigm = <<"v", "b", "_", "4", "m", "_", "v", "a", "r", "a">> THEN "Irregular verb (vara)"
        ELSE IF paradigm = <<"v", "b", "_", "2", "m", "_", "h", "a">> THEN "Irregular verb (ha)"
        ELSE IF Contains(paradigm, <<"4">>) THEN "Verb group 4 (strong)"
        ELSE IF Contains(paradigm, <<"1">>) \/ Contains(paradigm, <<"v", "a">>)
             THEN "Verb group 1 (-ar)"
        ELSE IF Contains(paradigm, <<"2">>) THEN "Verb group 2 (-er)"
        ELSE IF Contains(paradigm, <<"3">>) THEN "Verb group 3 (short)"
        ELSE ""
    ELSE ""

----------------------------------------------------------------------------
(* scripts/saldo_parser.py: form generation *)
(* A forms value is [dict |-> <<name, value>> pairs in key order] for a    *)
(* Python dict, [list |-> values] for a Python list, None for None.        *)

IsDict(forms) == "dict" \in DOMAIN forms

IsList(forms) == "list" \in DOMAIN forms

VerbForms(inf, pres, past, sup) ==
    [dict |-> << <<<<"i", "n", "f", "i", "n", "i", "t", "i", "v", "e">>, inf>>, <<<<"p", "r", "e", "s", "e", "n", "t">>, pres>>,
                 <<<<"p", "a", "s", "t">>, past>>, <<<<"s", "u", "p", "i", "n", "e">>, sup>> >>]

AdjForms(en, ett, plural, comp, super) ==
    [dict |-> << <<<<"e", "n", "_", "f", "o", "r", "m">>, en>>, <<<<"e", "t", "t", "_", "f", "o", "r", "m">>, ett>>, <<<<"p", "l", "u", "r", "a", "l">>, plural>>,
                 <<<<"c", "o", "m", "p", "a", "r", "a", "t", "i", "v", "e">>, comp>>, <<<<"s", "u", "p", "e", "r", "l", "a", "t", "i", "v", "e">>, super>> >>]

\* the index error of word[-1] on an empty word (line 188)
generate_forms_raises(word, paradigm, pos) ==
    /\ ~StartsWith(pos, <<"v", "b">>)
    /\ StartsWith(pos, <<"n", "n">>)
    /\ ~Contains(paradigm, <<"_", "0">>) /\ ~Contains(paradigm, <<"_", "1">>)
    /\ ~Contains(paradigm, <<"_", "2">>) /\ ~Contains(paradigm, <<"_", "3">>)
    /\ Contains(paradigm, <<"n", "n", "_", "5", "n">>)
    /\ ~EndsWith(word, <<"e">>) /\ ~EndsWith(word, <<"a">>) /\ ~EndsWith(word, <<"u", "m">>)
    /\ word = <<>>

\* a generate_forms whose group-2 verbs all take -te in the past (verbs only)
generate_forms_past_te(word, paradigm, pos) ==
    IF ~StartsWith(pos, <<"v", "b">>) THEN None
    ELSE IF paradigm = <<"v", "b", "_", "4", "m", "_", "v", "a", "r", "a">>
    THEN VerbForms(<<"v", "a", "r", "a">>, <<"ä", "r">>, <<"v", "a", "r">>, <<"v", "a", "r", "i", "t">>)
    ELSE IF paradigm = <<"v", "b", "_", "2", "m", "_", "h", "a">>
    THEN VerbForms(<<"h", "a">>, <<"h", "a", "r">>, <<"h", "a", "d", "e">>, <<"h", "a", "f", "t">>)
    ELSE IF ~EndsWith(word, <<"a">>) THEN None
    ELSE IF Contains(paradigm, <<"1">>) \/ Contains(paradigm, <<"v", "a">>)
    THEN VerbForms(word, word \o <<"r">>, DropLast(word, 1) \o <<"a", "d", "e">>,
                   DropLast(word, 1) \o <<"a", "t">>)
    ELSE IF Contains(paradigm, <<"2">>)
    THEN VerbForms(word, DropLast(word, 1) \o <<"e", "r">>, DropLast(word, 1) \o <<"t", "e">>,
                   DropLast(word, 1) \o <<"t">>)
    ELSE None

\* a generate_forms whose adjectives all take -t in the ett form (adjectives only)
generate_forms_ett_t(word, paradigm, pos) ==
    IF StartsWith(pos, <<"v", "b">>) \/ StartsWith(pos, <<"n", "n">>) \/ ~StartsWith(pos, <<"a", "v">>) THEN None
    ELSE IF word = <<"s", "t", "o", "r">>
    THEN AdjForms(<<"s", "t", "o", "r">>, <<"s", "t", "o", "r", "t">>, <<"s", "t", "o", "r", "a">>, <<"s", "t", "ö", "r", "r", "e">>, <<"s", "t", "ö", "r", "s", "t">>)
    ELSE AdjForms(word, word \o <<"t">>,
                  IF EndsWith(word, <<"a">>) THEN word ELSE word \o <<"a">>,
                  word \o <<"a", "r", "e">>, word \o <<"a", "s", "t">>)

\* generate_forms(word, paradigm, pos), where it returns
generate_forms(word, paradigm, pos) ==
    IF StartsWith(pos, <<"v", "b">>) THEN
        IF paradigm = <<"v", "b", "_", "4", "m", "_", "v", "a", "r", "a">>
        THEN VerbForms(<<"v", "a", "r", "a">>, <<"ä", "r">>, <<"v", "a", "r">>, <<"v", "a", "r", "i", "t">>)
        ELSE IF paradigm = <<"v", "b", "_", "2", "m", "_", "h", "a">>
        THEN VerbForms(<<"h", "a">>, <<"h", "a", "r">>, <<"h", "a", "d", "e">>, <<"h", "a", "f", "t">>)
        ELSE IF Contains(paradigm, <<"1">>) \/ Contains(paradigm, <<"v", "a">>) THEN
            IF EndsWith(word, <<"a">>)
            THEN LET stem == DropLast(word, 1)
                 IN VerbForms(word, word \o <<"r">>, stem \o <<"a", "d", "e">>, stem \o <<"a", "t">>)
            ELSE None
        ELSE IF Contains(paradigm, <<"2">>) THEN
            IF EndsWith(word, <<"a">>)
            THEN LET stem == DropLast(word, 1)
                 IN IF stem /= <<>> /\ stem[Len(stem)] \in {"p", "t", "k", "s", "x"}
                    THEN VerbForms(word, stem \o <<"e", "r">>, stem \o <<"t", "e">>, stem \o <<"t">>)
                    ELSE VerbForms(word, stem \o <<"e", "r">>, stem \o <<"d", "e">>, stem \o <<"t">>)
            ELSE None
        ELSE None
    ELSE IF StartsWith(pos, <<"n", "n">>) THEN
        IF Contains(paradigm, <<"_", "0">>)
        THEN [list |-> <<word, word \o <<"e", "n">>, <<"-">>, <<"-">>>>]
        ELSE IF Contains(paradigm, <<"_", "1">>) THEN
            IF EndsWith(word, <<"a">>)
            THEN LET stem == DropLast(word, 1)
                 IN [list |-> <<word, word \o <<"n">>, stem \o <<"o", "r">>, stem \o <<"o", "r", "n", "a">>>>]
            ELSE [list |-> <<word, word \o <<"n">>, word \o <<"o", "r">>, word \o <<"o", "r", "n", "a">>>>]
        ELSE IF Contains(paradigm, <<"_", "2">>)
        THEN [list |-> <<word, word \o <<"e", "n">>, word \o <<"a", "r">>, word \o <<"a", "r", "n", "a">>>>]
        ELSE IF Contains(paradigm, <<"_", "3">>)
        THEN [list |-> <<word, word \o <<"e", "n">>, word \o <<"e", "r">>, word \o <<"e", "r", "n", "a">>>>]
        ELSE IF Contains(paradigm, <<"n", "n", "_", "5", "n">>) THEN
            IF EndsWith(word, <<"e">>)
            THEN LET stem == DropLast(word, 1)
                 IN [list |-> <<word, stem \o <<"e", "t">>, stem \o <<"e", "n">>, stem \o <<"e", "n", "a">>>>]
            ELSE IF EndsWith(word, <<"a">>)
            THEN LET stem == DropLast(word, 1)
                 IN [list |-> <<word, stem \o <<"a", "t">>, stem \o <<"a", "n">>, stem \o <<"a", "n", "a">>>>]
            ELSE IF EndsWith(word, <<"u", "m">>)
            THEN LET stem == DropLast(word, 2)
                 IN [list |-> <<word, stem \o <<"e", "t">>, stem \o <<"a">>, stem \o <<"a", "n", "a">>>>]
            ELSE IF word[Len(word)] \in {"o", "i", "u", "y", "å", "ä", "ö"}
            THEN [list |-> <<word, word \o <<"t">>, word \o <<"n">>, word \o <<"n", "a">>>>]
            ELSE [list |-> <<word, word \o <<"e", "t">>, word \o <<"n">>, word \o <<"n", "a">>>>]
        ELSE IF Contains(paradigm, <<"_", "6">>)
        THEN [list |-> <<word, word \o <<"e", "t">>, word, word \o <<"e", "n">>>>]
        ELSE None
    ELSE IF StartsWith(pos, <<"a", "v">>) THEN
        IF word = <<"s", "t", "o", "r">>
        THEN AdjForms(<<"s", "t", "o", "r">>, <<"s", "t", "o", "r", "t">>, <<"s", "t", "o", "r", "a">>, <<"s", "t", "ö", "r", "r", "e">>, <<"s", "t", "ö", "r", "s", "t">>)
        ELSE LET ett == IF ~(EndsWith(word, <<"t">>) \/ EndsWith(word, <<"d">>))
                        THEN word \o <<"t">> ELSE word
                 plural == IF ~EndsWith(word, <<"a">>) THEN word \o <<"a">> ELSE word
             IN AdjForms(word, ett, plural, word \o <<"a", "r", "e">>, word \o <<"a", "s", "t">>)
    ELSE None

----------------------------------------------------------------------------
(* scripts/saldo_parser.py: disambiguation *)

\* priority.get(x.get('partOfSpeech', '')[:2], 99)
Priority(e) ==
    LET p == Prefix(Feat(e, "partOfSpeech", <<>>), 2)
    IN CASE p = <<"v", "b">> -> 1
         [] p = <<"a", "v">> -> 2
         [] p = <<"n", "n">> -> 3
         [] p = <<"a", "b">> -> 4
         [] p = <<"p", "m">> -> 10
         [] OTHER -> 99

\* a sort that puts an element before the elements of equal key
InsertBeforeEqual(s, e) ==
    LET n == Cardinality({i \in DOMAIN s : Priority(s[i]) < Priority(e)})
    IN SubSeq(s, 1, n) \o <<e>> \o SubSeq(s, n + 1, Len(s))

\* one step of the stable sort: e goes after every element whose key is <= its key
InsertStable(s, e) ==
    LET n == Cardinality({i \in DOMAIN s : Priority(s[i]) <= Priority(e)})
    IN SubSeq(s, 1, n) \o <<e>> \o SubSeq(s, n + 1, Len(s))

\* sorted(entries, key=priority)
RECURSIVE sorted_by_priority(_)
sorted_by_priority(entries) ==
    IF entries = <<>> THEN <<>>
    ELSE InsertStable(sorted_by_priority(DropLast(entries, 1)), entries[Len(entries)])

has_paradigm(e, paradigm) == "paradigm" \in DOMAIN e /\ e.paradigm = paradigm

is_adjective(e) == StartsWith(Feat(e, "partOfSpeech", <<>>), <<"a", "v">>)

\* the candidate the per-word branch of parse_saldo_final hands to process_entry
select_entry(word, entries) ==
    IF word = <<"v", "a", "r", "a">> /\ \E i \in DOMAIN entries : has_paradigm(entries[i], <<"v", "b", "_", "4", "m", "_", "v", "a", "r", "a">>)
    THEN entries[CHOOSE i \in DOMAIN entries :
                    /\ has_paradigm(entries[i], <<"v", "b", "_", "4", "m", "_", "v", "a", "r", "a">>)
                    /\ \A j \in 1..(i - 1) : ~has_paradigm(entries[j], <<"v", "b", "_", "4", "m", "_", "v", "a", "r", "a">>)]
    ELSE IF word = <<"h", "a">> /\ \E i \in DOMAIN entries : has_paradigm(entries[i], <<"v", "b", "_", "2", "m", "_", "h", "a">>)
    THEN entries[CHOOSE i \in DOMAIN entries :
                    /\ has_paradigm(entries[i], <<"v", "b", "_", "2", "m", "_", "h", "a">>)
                    /\ \A j \in 1..(i - 1) : ~has_paradigm(entries[j], <<"v", "b", "_", "2", "m", "_", "h", "a">>)]
    ELSE IF word = <<"s", "t", "o", "r">> /\ \E i \in DOMAIN entries : is_adjective(entries[i])
    THEN entries[CHOOSE i \in DOMAIN entries :
                    /\ is_adjective(entries[i])
                    /\ \A j \in 1..(i - 1) : ~is_adjective(entries[j])]
    ELSE sorted_by_priority(entries)[1]

----------------------------------------------------------------------------
(* scripts/saldo_parser.py: process_entry and add_inflected_forms *)

\* the entry process_entry stores under the word
base_entry(word, entry_data) ==
    LET pos == Feat(entry_data, "partOfSpeech", <<>>)
        paradigm == Feat(entry_data, "paradigm", <<>>)
        forms == generate_forms(word, paradigm, pos)
        entry == [word |-> word, type |-> get_word_type(pos), paradigm |-> paradigm,
                  group |-> get_group(paradigm, pos)]
        with_forms == IF forms /= None THEN entry @@ [forms |-> forms] ELSE entry
    IN IF StartsWith(pos, <<"n", "n">>)
       THEN with_forms @@ [gender |-> get_gender(paradigm)]
       ELSE with_forms

\* position labels with the two numbers exchanged
form_names_plural_first ==
    <<<<"p", "l", "u", "r", "a", "l", " ", "i", "n", "d", "e", "f", "i", "n", "i", "t", "e">>, <<"p", "l", "u", "r", "a", "l", " ", "d", "e", "f", "i", "n", "i", "t", "e">>,
      <<"s", "i", "n", "g", "u", "l", "a", "r", " ", "i", "n", "d", "e", "f", "i", "n", "i", "t", "e">>, <<"s", "i", "n", "g", "u", "l", "a", "r", " ", "d", "e", "f", "i", "n", "i", "t", "e">>>>

form_names ==
    <<<<"s", "i", "n", "g", "u", "l", "a", "r", " ", "i", "n", "d", "e", "f", "i", "n", "i", "t", "e">>, <<"s", "i", "n", "g", "u", "l", "a", "r", " ", "d", "e", "f", "i", "n", "i", "t", "e">>,
      <<"p", "l", "u", "r", "a", "l", " ", "i", "n", "d", "e", "f", "i", "n", "i", "t", "e">>, <<"p", "l", "u", "r", "a", "l", " ", "d", "e", "f", "i", "n", "i", "t", "e">>>>

\* the (form_type, form_value) pairs the loop of add_inflected_forms visits, in order
form_items(word_type, forms) ==
    IF word_type = "verb" /\ IsDict(forms) THEN forms.dict
    ELSE IF word_type = "noun" /\ IsList(forms)
    THEN [i \in DOMAIN forms.list |-> <<form_names[i], forms.list[i]>>]
    ELSE IF word_type = "adjective" /\ IsDict(forms)
    THEN [i \in DOMAIN forms.dict |->
             <<Replace(forms.dict[i][1], "_", " "), forms.dict[i][2]>>]
    ELSE <<>>

\* the record add_inflected_forms stores under a generated form
form_entry(word_type, base_word, form_type, forms, entry_data) ==
    IF word_type = "verb"
    THEN [type |-> "verb", is_form |-> TRUE, base_word |-> base_word,
          form_type |-> form_type, group |-> Feat(entry_data, "group", None),
          forms |-> forms]
    ELSE IF word_type = "noun"
    THEN [type |-> "noun", is_form |-> TRUE, base_word |-> base_word,
          form_type |-> form_type, group |-> Feat(entry_data, "group", None),
          gender |-> Feat(entry_data, "gender", None), forms |-> forms]
    ELSE [type |-> "adjective", is_form |-> TRUE, base_word |-> base_word,
          form_type |-> form_type, group |-> "Adjective", forms |-> forms]

\* the tests a form value passes before the membership test
form_wanted(word_type, base_word, form) ==
    /\ form /= <<>>
    /\ form /= base_word
    /\ word_type = "noun" => form /= <<"-">>

\* a form explosion that overwrites: the membership test left out
form_free_always(d, form) == TRUE

\* "if form not in dictionary"
form_free(d, form) == ~Has(d, form)

RECURSIVE add_forms_from(_, _, _, _, _)
add_forms_from(d, base_word, forms, entry_data, i) ==
    LET word_type == entry_data.type
        items == form_items(word_type, forms)
    IN IF i > Len(items) THEN d
       ELSE LET form_type == items[i][1]
                form == items[i][2]
                d1 == IF form_wanted(word_type, base_word, form) /\ form_free(d, form)
                      THEN Put(d, form,
                               form_entry(word_type, base_word, form_type, forms, entry_data))
                      ELSE d
            IN add_forms_from(d1, base_word, forms, entry_data, i + 1)

\* add_inflected_forms(dictionary, base_word, forms, entry_data)
add_inflected_forms(d, base_word, forms, entry_data) ==
    IF forms = None THEN d
    ELSE add_forms_from(d, base_word, forms, entry_data, 1)

----------------------------------------------------------------------------
(* The inputs: feature maps a SALDO file can hold *)

RawEntry(writtenForm, partOfSpeech, paradigm) ==
    [writtenForm |-> writtenForm, partOfSpeech |-> partOfSpeech, paradigm |-> paradigm]

RawPool ==
    { RawEntry(<<"v", "a", "r", "a">>, <<"n", "n">>, <<"n", "n", "_", "1", "u", "_", "f", "l", "i", "c", "k", "a">>),
      RawEntry(<<"v", "a", "r", "a">>, <<"v", "b">>, <<"v", "b", "_", "4", "m", "_", "v", "a", "r", "a">>),
      [writtenForm |-> <<"v", "a", "r", "a">>, paradigm |-> <<"v", "b", "_", "4", "m", "_", "v", "a", "r", "a">>],
      RawEntry(<<"h", "a">>, <<"v", "b">>, <<"v", "b", "_", "1", "a", "_", "l", "a", "g", "a">>),
      RawEntry(<<"h", "a">>, <<"v", "b">>, <<"v", "b", "_", "2", "m", "_", "h", "a">>),
      RawEntry(<<"s", "t", "o", "r">>, <<"n", "n">>, <<"n", "n", "_", "2", "u", "_", "s", "t", "o", "l">>),
      RawEntry(<<"s", "t", "o", "r">>, <<"a", "v">>, <<"a", "v", "_", "1", "_", "f", "i", "n">>),
      RawEntry(<<"H", "u", "s">>, <<"n", "n">>, <<"n", "n", "_", "6", "n", "_", "h", "u", "s">>),
      RawEntry(<<"h", "u", "s", "e">>, <<"n", "n">>, <<"n", "n", "_", "5", "n", "_", "s", "a", "l", "d", "o">>),
      RawEntry(<<"h", "u", "s", "e", "t">>, <<"a", "b">>, <<"a", "b", "_", "i", "_", "i", "n", "t", "e">>),
      [partOfSpeech |-> <<"n", "n">>, paradigm |-> <<"n", "n", "_", "6", "n", "_", "h", "u", "s">>],
      RawEntry(<<>>, <<"n", "n">>, <<"n", "n", "_", "5", "n", "_", "s", "a", "l", "d", "o">>) }

Inputs == UNION {[1..n -> RawPool] : n \in 0..MaxEntries}

\* data/strong_verbs.json: hand-written display records
StrongVerbTables ==
    { <<>>,
      << [key |-> <<"v", "a", "r", "a">>,
          val |-> [word |-> <<"v", "a", "r", "a">>, type |-> "verb", group |-> "Strong verb",
                   forms |-> VerbForms(<<"v", "a", "r", "a">>, <<"ä", "r">>, <<"v", "a", "r">>, <<"v", "a", "r", "i", "t">>)]],
         [key |-> <<"ä", "r">>,
          val |-> [word |-> <<"v", "a", "r", "a">>, type |-> "verb", group |-> "Strong verb",
                   form_type |-> <<"p", "r", "e", "s", "e", "n", "t">>]] >> }

\* data/ambiguous_words.json: candidate lists
AmbiguousTables ==
    { <<>>,
      << [key |-> <<"v", "a", "r", "a">>,
          val |-> << [word |-> <<"v", "a", "r", "a">>, type |-> "verb", description |-> "to be"],
                     [word |-> <<"v", "a", "r", "a">>, type |-> "noun", description |-> "goods"] >>],
         [key |-> <<"h", "u", "s">>,
          val |-> << [word |-> <<"h", "u", "s">>, type |-> "noun", description |-> "house"],
                     [word |-> <<"h", "u", "s">>, type |-> "noun", description |-> "sturgeon"] >>] >> }

\* data/ordinal_numbers.json: cardinal -> ordinal
OrdinalTables ==
    { << [key |-> <<"t", "v", "å">>, val |-> <<"a", "n", "d", "r", "a">>] >> }

\* how a table file can be found when the service starts: readable JSON, absent,
\* text that is not JSON, or bytes that are not text (not UTF-8; for the .gz file, not gzip)
FileStates == {"ok", "missing", "bad_json", "bad_bytes"}

File(state, content) == [state |-> state, content |-> content]

\* the five files of data/ that __init__ names; the two lexicon files get their content
\* from the compiler (dictionary.json.gz is the gzip of its output)
FileSystem(compressed, dict, ambiguous, ordinal, strong) ==
    [compressed |-> compressed, dict |-> dict, ambiguous |-> ambiguous,
     ordinals |-> ordinal, strong_verbs |-> strong]

\* every file readable, no compressed lexicon
ReadableFiles ==
    { FileSystem(File("missing", <<>>), File("ok", <<>>), File("ok", a), File("ok", o),
                 File("ok", s)) :
        a \in AmbiguousTables, o \in OrdinalTables, s \in StrongVerbTables }

\* the tables with content, for the runs that vary the state of the files
FullTable(tables) == CHOOSE t \in tables : t /= <<>>

\* every combination of file states
AnyFiles ==
    { FileSystem(File(c, <<>>), File(d, <<>>), File(a, FullTable(AmbiguousTables)),
                 File(o, FullTable(OrdinalTables)), File(s, FullTable(StrongVerbTables))) :
        c \in FileStates, d \in FileStates, a \in FileStates, o \in FileStates,
        s \in FileStates }

\* words sent to lookup
Queries == {<<"v", "a", "r", "a">>, <<"V", "a", "r", "a", " ">>, <<"h", "u", "s">>, <<" ", "H", "U", "S">>, <<"Ä", "R">>, <<"h", "u", "s", "e", "t">>, <<"x">>}

\* partial inputs sent to get_suggestions
Partials == {<<" ">>, <<"H", "u">>, <<"h", "u", "s", " ">>, <<"v">>}

----------------------------------------------------------------------------
(* The run: compile the lexicon, then start the service and call it *)

\* the coroutines of handle_report the event loop may hold
Handlers == 1..MaxHandlers

\* no "report:" button pressed: no coroutine created, no report file written
NoReports ==
    /\ reported_words = File("missing", <<>>)
    /\ handlers = [h \in Handlers |-> [pc |-> "idle"]]
    /\ log_at_start = reported_words

Init ==
    /\ raw \in Inputs
    /\ pc = "collect"
    /\ idx = 1
    /\ all_entries = <<>>
    /\ dictionary = <<>>
    /\ pending = None
    /\ data = <<>>
    /\ strong_verbs = <<>>
    /\ ambiguous_words = <<>>
    /\ ordinals = <<>>
    /\ files \in ReadableFiles
    /\ result = [op |-> "none"]
    /\ NoReports

service_vars == <<data, strong_verbs, ambiguous_words, ordinals, result>>

compiler_vars == <<raw, idx, all_entries, dictionary, pending>>

\* all_entries[word].append(word_data)
append_entry(entries, word, word_data) ==
    IF Has(entries, word)
    THEN Put(entries, word, Append(Get(entries, word), word_data))
    ELSE Put(entries, word, <<word_data>>)

\* parse_saldo_final, one iteration of the collecting loop
Collect ==
    /\ pc = "collect"
    /\ idx <= Len(raw)
    /\ LET word_data == raw[idx]
       IN all_entries' =
              IF "writtenForm" \in DOMAIN word_data
              THEN append_entry(all_entries, Lower(word_data.writtenForm), word_data)
              ELSE all_entries
    /\ idx' = idx + 1
    /\ UNCHANGED <<raw, pc, dictionary, pending, files, service_vars>>
    /\ UNCHANGED report_vars

\* parse_saldo_final, between the loops: dictionary = {}
BeginProcessing ==
    /\ pc = "collect"
    /\ idx > Len(raw)
    /\ dictionary' = <<>>
    /\ pc' = "process"
    /\ idx' = 1
    /\ UNCHANGED <<raw, all_entries, pending, files, service_vars>>
    /\ UNCHANGED report_vars

\* a process_entry that does not store the entry
store_entry_missing(d, word, entry) == d

\* a process_entry that keeps whatever is already stored under the word
store_entry_if_absent(d, word, entry) == IF Has(d, word) THEN d ELSE Put(d, word, entry)

\* dictionary[word] = entry
store_entry(d, word, entry) == Put(d, word, entry)

\* parse_saldo_final, one iteration of the processing loop, up to
\* process_entry's call of add_inflected_forms
ProcessEntry ==
    /\ pc = "process"
    /\ idx <= Len(all_entries)
    /\ LET word == all_entries[idx].key
           entry_data == select_entry(word, all_entries[idx].val)
           pos == Feat(entry_data, "partOfSpeech", <<>>)
           paradigm == Feat(entry_data, "paradigm", <<>>)
       IN IF generate_forms_raises(word, paradigm, pos)
          THEN /\ pc' = "crashed"
               /\ UNCHANGED <<dictionary, pending>>
          ELSE /\ dictionary' = store_entry(dictionary, word, base_entry(word, entry_data))
               /\ pending' = [base_word |-> word,
                              forms |-> generate_forms(word, paradigm, pos),
                              entry_data |-> base_entry(word, entry_data)]
               /\ pc' = "explode"
    /\ UNCHANGED <<raw, idx, all_entries, files, service_vars>>
    /\ UNCHANGED report_vars

\* process_entry's call of add_inflected_forms, and the loop's next iteration
AddInflectedForms ==
    /\ pc = "explode"
    /\ dictionary' = add_inflected_forms(dictionary, pending.base_word, pending.forms,
                                         pending.entry_data)
    /\ pending' = None
    /\ idx' = idx + 1
    /\ pc' = "process"
    /\ UNCHANGED <<raw, all_entries, files, service_vars>>
    /\ UNCHANGED report_vars

\* parse_saldo_final returns and the script writes the lexicon file
Finish ==
    /\ pc = "process"
    /\ idx > Len(all_entries)
    /\ pc' = "done"
    /\ files' = [files EXCEPT !.dict.content = dictionary,
                              !.compressed.content = dictionary]
    /\ UNCHANGED <<raw, idx, all_entries, dictionary, pending, service_vars>>
    /\ UNCHANGED report_vars

\* __init__: the compressed lexicon is used if it exists
dict_path == IF files.compressed.state /= "missing" THEN "compressed" ELSE "dict"

\* what open()/gzip.open() and json.load raise on a file, "none" if they return
load_raises(path) ==
    CASE files[path].state = "missing" -> "FileNotFoundError"
      [] files[path].state = "bad_json" -> "JSONDecodeError"
      [] files[path].state = "bad_bytes" ->
             IF path = "compressed" THEN "BadGzipFile" ELSE "UnicodeDecodeError"
      [] OTHER -> "none"

\* the except clauses of each of the four try blocks
handled == {"FileNotFoundError", "JSONDecodeError"}

\* one try block: the table loaded, or {} after a handled exception
load_table(path) == IF load_raises(path) = "none" THEN files[path].content ELSE <<>>

\* __init__ raises: some try block meets an exception it has no clause for
init_raises ==
    \E path \in {dict_path, "ambiguous", "ordinals", "strong_verbs"} :
        load_raises(path) \notin handled \cup {"none"}

\* SwedishDictionary.__init__ in the serving process (main.py creates the service
\* at import): json.load of the four tables. The lexicon file holds the compiled
\* dictionary, whose keys json keeps in order; the compiler's own variables are not
\* part of the serving process.
Startup ==
    /\ pc = "done"
    /\ IF init_raises
       THEN /\ pc' = "startup_failed"
            /\ UNCHANGED <<data, ambiguous_words, ordinals, strong_verbs>>
       ELSE /\ pc' = "serving"
            /\ data' = load_table(dict_path)
            /\ ambiguous_words' = load_table("ambiguous")
            /\ ordinals' = load_table("ordinals")
            /\ strong_verbs' = load_table("strong_verbs")
    /\ raw' = <<>>
    /\ all_entries' = <<>>
    /\ dictionary' = <<>>
    /\ UNCHANGED <<idx, pending, result, files>>
    /\ UNCHANGED report_vars

\* a lookup that consults the ambiguous-word table before the override table
lookup_ambiguous_first(word0) ==
    LET word == Strip(Lower(word0))
    IN IF Has(ambiguous_words, word)
       THEN [ambiguous |-> TRUE, meanings |-> Get(ambiguous_words, word), word |-> word]
       ELSE IF Has(strong_verbs, word)
       THEN [ambiguous |-> FALSE, data |-> Get(strong_verbs, word), word |-> word]
       ELSE IF ~Has(data, word)
       THEN None
       ELSE [ambiguous |-> FALSE, data |-> Get(data, word), word |-> word]

\* a lookup that picks the first candidate of an ambiguous word
lookup_autopick(word0) ==
    LET word == Strip(Lower(word0))
    IN IF Has(strong_verbs, word)
       THEN [ambiguous |-> FALSE, data |-> Get(strong_verbs, word), word |-> word]
       ELSE IF Has(ambiguous_words, word)
       THEN [ambiguous |-> FALSE, data |-> Get(ambiguous_words, word)[1], word |-> word]
       ELSE IF ~Has(data, word)
       THEN None
       ELSE [ambiguous |-> FALSE, data |-> Get(data, word), word |-> word]

\* SwedishDictionary.lookup(word)
lookup(word0) ==
    LET word == Strip(Lower(word0))
    IN IF Has(strong_verbs, word)
       THEN [ambiguous |-> FALSE, data |-> Get(strong_verbs, word), word |-> word]
       ELSE IF Has(ambiguous_words, word)
       THEN [ambiguous |-> TRUE, meanings |-> Get(ambiguous_words, word), word |-> word]
       ELSE IF ~Has(data, word)
       THEN None
       ELSE [ambiguous |-> FALSE, data |-> Get(data, word), word |-> word]

\* a lookup call that remembers a miss by storing a placeholder in the lexicon
LookupRememberingMisses ==
    /\ pc = "serving"
    /\ result.op = "none"
    /\ \E word \in Queries :
           /\ result' = [op |-> "lookup", word |-> word, out |-> lookup(word)]
           /\ data' = IF lookup(word) = None
                      THEN Put(data, Strip(Lower(word)), [type |-> "unknown"])
                      ELSE data
    /\ UNCHANGED <<pc, compiler_vars, files, strong_verbs, ambiguous_words, ordinals>>
    /\ UNCHANGED report_vars

\* a handler of the bot calls lookup
Lookup ==
    /\ pc = "serving"
    /\ result.op = "none"
    /\ \E word \in Queries :
           result' = [op |-> "lookup", word |-> word, out |-> lookup(word)]
    /\ UNCHANGED <<pc, compiler_vars, files, data, strong_verbs, ambiguous_words, ordinals>>
    /\ UNCHANGED report_vars

\* a get_suggestions that does not skip word forms
is_form_never(entry) == FALSE

\* data.get('is_form') is truthy
is_form(entry) == "is_form" \in DOMAIN entry /\ entry.is_form = TRUE

\* the loop of get_suggestions from position i on, with its break
RECURSIVE suggestions_from(_, _, _, _)
suggestions_from(i, suggestions, partial, limit) ==
    IF i > Len(data) THEN suggestions
    ELSE IF ~is_form(data[i].val) /\ StartsWith(data[i].key, partial)
    THEN LET appended == Append(suggestions, data[i].key)
         IN IF Len(appended) >= limit THEN appended
            ELSE suggestions_from(i + 1, appended, partial, limit)
    ELSE suggestions_from(i + 1, suggestions, partial, limit)

\* SwedishDictionary.get_suggestions(partial, limit)
get_suggestions(partial, limit) ==
    suggestions_from(1, <<>>, Strip(Lower(partial)), limit)

\* a handler of the bot calls get_suggestions
GetSuggestions ==
    /\ pc = "serving"
    /\ result.op = "none"
    /\ \E partial \in Partials, limit \in 0..MaxLimit :
           result' = [op |-> "suggest", partial |-> partial, limit |-> limit,
                      out |-> get_suggestions(partial, limit)]
    /\ UNCHANGED <<pc, compiler_vars, files, data, strong_verbs, ambiguous_words, ordinals>>
    /\ UNCHANGED report_vars

\* a get_stats that counts the word type of base words only
stats_step_types_of_base_words(stats, entry) ==
    IF is_form(entry)
    THEN [stats EXCEPT !.word_forms = @ + 1]
    ELSE LET counted == [stats EXCEPT !.base_words = @ + 1]
             word_type == IF "type" \in DOMAIN entry THEN entry.type ELSE "none"
         IN CASE word_type = "noun" -> [counted EXCEPT !.nouns = @ + 1]
              [] word_type = "verb" -> [counted EXCEPT !.verbs = @ + 1]
              [] word_type = "adjective" -> [counted EXCEPT !.adjectives = @ + 1]
              [] OTHER -> counted

\* get_stats, the body of the loop over self.data.items()
stats_step(stats, entry) ==
    LET counted == IF is_form(entry)
                   THEN [stats EXCEPT !.word_forms = @ + 1]
                   ELSE [stats EXCEPT !.base_words = @ + 1]
        word_type == IF "type" \in DOMAIN entry THEN entry.type ELSE "none"
    IN CASE word_type = "noun" -> [counted EXCEPT !.nouns = @ + 1]
         [] word_type = "verb" -> [counted EXCEPT !.verbs = @ + 1]
         [] word_type = "adjective" -> [counted EXCEPT !.adjectives = @ + 1]
         [] OTHER -> counted

\* get_stats, the loop from its i-th iteration on
RECURSIVE stats_from(_, _)
stats_from(i, stats) ==
    IF i > Len(data) THEN stats
    ELSE stats_from(i + 1, stats_step(stats, data[i].val))

\* SwedishDictionary.get_stats
get_stats ==
    stats_from(1, [total_entries |-> Len(data), base_words |-> 0, word_forms |-> 0,
                   nouns |-> 0, verbs |-> 0, adjectives |-> 0])

\* main.py asks for the statistics (at start, on /start and on /stats)
GetStats ==
    /\ pc = "serving"
    /\ result.op = "none"
    /\ result' = [op |-> "stats", out |-> get_stats]
    /\ UNCHANGED <<pc, compiler_vars, files, data, strong_verbs, ambiguous_words, ordinals>>
    /\ UNCHANGED report_vars

UpperChar(c) ==
    IF \E i \in DOMAIN LowerChars : LowerChars[i] = c
    THEN UpperChars[CHOOSE i \in DOMAIN LowerChars : LowerChars[i] = c]
    ELSE c

\* str.upper()
Upper(s) == [i \in 1..Len(s) |-> UpperChar(s[i])]

\* the one-character string (U+2014) the cards print for a value that is missing
Dash == <<"em dash">>

\* word_data.get(key, default)
Field(word_data, key, default) == IF key \in DOMAIN word_data THEN word_data[key] ELSE default

\* forms.get(name, default) on a forms dict
form_get(forms, name, default) ==
    IF \E i \in DOMAIN forms.dict : forms.dict[i][1] = name
    THEN forms.dict[CHOOSE i \in DOMAIN forms.dict : forms.dict[i][1] = name][2]
    ELSE default

\* truth value of a forms table: a dict or list with elements
has_forms(forms) ==
    \/ IsDict(forms) /\ Len(forms.dict) > 0
    \/ IsList(forms) /\ Len(forms.list) > 0

\* word_type.capitalize()
capitalize(word_type) ==
    CASE word_type = "noun" -> "Noun"
      [] word_type = "verb" -> "Verb"
      [] word_type = "adjective" -> "Adjective"
      [] word_type = "adverb" -> "Adverb"
      [] word_type = "pronoun" -> "Pronoun"
      [] word_type = "preposition" -> "Preposition"
      [] word_type = "conjunction" -> "Conjunction"
      [] word_type = "interjection" -> "Interjection"
      [] word_type = "proper_noun" -> "Proper_noun"
      [] word_type = "numeral" -> "Numeral"
      [] word_type = "unknown" -> "Unknown"

\* _format_type_name: every type the tables hold has a display name
format_type_name(word_type) ==
    CASE word_type = "noun" -> "Noun (Substantiv)"
      [] word_type = "adjective" -> "Adjective (Adjektiv)"
      [] word_type = "pronoun" -> "Pronoun (Pronomen)"
      [] word_type = "conjunction" -> "Conjunction (Konjunktion)"
      [] word_type = "proper_noun" -> "Proper Noun (Egennamn)"
      [] word_type = "numeral" -> "Numeral (Räkneord)"
      [] OTHER -> capitalize(word_type)

\* a card is the sequence of its lines; a line is its label followed by the values
\* printed in it (the emoji of the type line is a function of the type printed)
header_lines(word, word_type) ==
    << <<"header", Upper(word)>>, <<"Type", format_type_name(word_type)>> >>

\* forms[i] if forms[i] != '-' else 'no plural'
plural_or_none(form) == IF form = <<"-">> THEN <<"n", "o", " ", "p", "l", "u", "r", "a", "l">> ELSE form

\* the four declension lines of a noun card
declension_lines(gender, forms) ==
    << <<"Singular indefinite", gender, forms.list[1]>>,
       <<"Singular definite", forms.list[2]>>,
       <<"Plural indefinite", plural_or_none(forms.list[3])>>,
       <<"Plural definite", plural_or_none(forms.list[4])>> >>

\* the lines printed only when the value is not empty
optional_line(label, forms, name) ==
    IF form_get(forms, name, <<>>) /= <<>>
    THEN << <<label, form_get(forms, name, Dash)>> >>
    ELSE <<>>

\* _format_word_form
format_word_form(word_data, word) ==
    LET word_type == Field(word_data, "type", "unknown")
        group == Field(word_data, "group", "")
        gender == Field(word_data, "gender", "en")
        forms == Field(word_data, "forms", None)
    IN << header_lines(word, word_type)[1],
             <<"form of", Field(word_data, "form_type", <<>>),
               Field(word_data, "base_word", <<>>)>>,
             header_lines(word, word_type)[2] >>
       \o (IF group /= "" THEN << <<"Group", group>> >> ELSE <<>>)
       \o (IF word_type = "verb" /\ "forms" \in DOMAIN word_data
           THEN << <<"Full conjugation">>,
                   <<"Infinitive", form_get(forms, <<"i", "n", "f", "i", "n", "i", "t", "i", "v", "e">>, Dash)>>,
                   <<"Present", form_get(forms, <<"p", "r", "e", "s", "e", "n", "t">>, Dash)>>,
                   <<"Past", form_get(forms, <<"p", "a", "s", "t">>, Dash)>>,
                   <<"Supine", form_get(forms, <<"s", "u", "p", "i", "n", "e">>, Dash)>> >>
           ELSE IF word_type = "noun" /\ "forms" \in DOMAIN word_data
           THEN << <<"Gender", gender>>, <<"Full declension">> >>
                \o (IF IsList(forms) /\ Len(forms.list) >= 4
                    THEN declension_lines(gender, forms) ELSE <<>>)
           ELSE IF word_type = "adjective" /\ "forms" \in DOMAIN word_data
           THEN << <<"Full forms">>,
                   <<"En-form", form_get(forms, <<"e", "n", "_", "f", "o", "r", "m">>, Dash)>>,
                   <<"Ett-form", form_get(forms, <<"e", "t", "t", "_", "f", "o", "r", "m">>, Dash)>>,
                   <<"Plural/Definite", form_get(forms, <<"p", "l", "u", "r", "a", "l">>, Dash)>> >>
                \o optional_line("Comparative", forms, <<"c", "o", "m", "p", "a", "r", "a", "t", "i", "v", "e">>)
                \o optional_line("Superlative", forms, <<"s", "u", "p", "e", "r", "l", "a", "t", "i", "v", "e">>)
           ELSE <<>>)

\* _format_noun
format_noun(word_data) ==
    LET forms == Field(word_data, "forms", [list |-> <<>>])
        gender == Field(word_data, "gender", "en")
    IN << <<"Gender", gender>> >>
       \o (IF has_forms(forms) /\ IsList(forms)
           THEN IF Len(forms.list) >= 4
                THEN << <<"Declension">> >> \o declension_lines(gender, forms)
                ELSE << <<"Base form", forms.list[1]>> >>
           ELSE <<>>)

\* _format_verb
format_verb(word_data) ==
    LET forms == Field(word_data, "forms", [dict |-> <<>>])
    IN IF ~has_forms(forms) THEN << <<"No conjugation data available">> >>
       ELSE IF IsDict(forms)
       THEN << <<"Conjugation">>, <<"Infinitive", form_get(forms, <<"i", "n", "f", "i", "n", "i", "t", "i", "v", "e">>, Dash)>> >>
            \o optional_line("Present", forms, <<"p", "r", "e", "s", "e", "n", "t">>)
            \o optional_line("Past", forms, <<"p", "a", "s", "t">>)
            \o optional_line("Supine", forms, <<"s", "u", "p", "i", "n", "e">>)
       ELSE << <<"Base form", Field(word_data, "word", Dash)>> >>

\* _format_adjective
format_adjective(word_data) ==
    LET forms == Field(word_data, "forms", [dict |-> <<>>])
    IN IF ~has_forms(forms) THEN << <<"No form data available">> >>
       ELSE IF IsDict(forms)
       THEN << <<"Forms">>,
               <<"En-form", form_get(forms, <<"e", "n", "_", "f", "o", "r", "m">>, Dash)>>,
               <<"Ett-form", form_get(forms, <<"e", "t", "t", "_", "f", "o", "r", "m">>, Dash)>>,
               <<"Plural/Definite", form_get(forms, <<"p", "l", "u", "r", "a", "l">>, Dash)>> >>
            \o (IF \E i \in DOMAIN forms.dict :
                       forms.dict[i][1] \in {<<"c", "o", "m", "p", "a", "r", "a", "t", "i", "v", "e">>, <<"s", "u", "p", "e", "r", "l", "a", "t", "i", "v", "e">>}
                THEN << <<"Comparison">> >>
                     \o optional_line("Comparative", forms, <<"c", "o", "m", "p", "a", "r", "a", "t", "i", "v", "e">>)
                     \o optional_line("Superlative", forms, <<"s", "u", "p", "e", "r", "l", "a", "t", "i", "v", "e">>)
                ELSE <<>>)
       ELSE << <<"Base form", Field(word_data, "word", Dash)>> >>

\* _format_numeral: reads the ordinal table
format_numeral(word_data) ==
    LET word == Field(word_data, "word", <<>>)
    IN << <<"Cardinal number">> >>
       \o (IF Has(ordinals, word) THEN << <<"Ordinal form", Get(ordinals, word)>> >>
           ELSE <<>>)

\* SwedishDictionary.format_word_card
format_word_card(word_data, word) ==
    IF is_form(word_data) THEN format_word_form(word_data, word)
    ELSE LET word_type == Field(word_data, "type", "unknown")
             group == Field(word_data, "group", "")
         IN header_lines(word, word_type)
            \o (IF group /= "" /\ group /= capitalize(word_type)
                THEN << <<"Group", group>> >> ELSE <<>>)
            \o CASE word_type = "noun" -> format_noun(word_data)
                 [] word_type = "verb" -> format_verb(word_data)
                 [] word_type = "adjective" -> format_adjective(word_data)
                 [] word_type = "proper_noun" -> << <<"Category", "Name or place">> >>
                 [] word_type = "numeral" -> format_numeral(word_data)
                 [] OTHER -> << <<"Base form", Field(word_data, "word", Dash)>> >>

\* handle_message after a lookup that found one record: the card is made and sent
RenderCard ==
    /\ pc = "serving"
    /\ result.op = "lookup"
    /\ result.out /= None
    /\ ~result.out.ambiguous
    /\ result' = [op |-> "card", word |-> result.out.word,
                  out |-> format_word_card(result.out.data, result.out.word)]
    /\ UNCHANGED <<pc, compiler_vars, files, data, strong_verbs, ambiguous_words, ordinals>>
    /\ UNCHANGED report_vars

\* seq[i] raises IndexError
index_raises(seq, i) == i >= Len(seq) \/ i < 0 - Len(seq)

\* seq[i] of a Python list: from 0, a negative index counts from the end
index(seq, i) == IF i >= 0 THEN seq[i + 1] ELSE seq[Len(seq) + i + 1]

\* handle_meaning_selection after the callback data is split: what the handler
\* sends, or the exception that leaves it
handle_meaning_selection(word, meaning_idx) ==
    LET found == lookup(word)
    IN IF found = None \/ ~found.ambiguous
       THEN [reply |-> "error", text |-> "Error: Word data not found."]
       ELSE IF index_raises(found.meanings, meaning_idx)
       THEN [raises |-> "IndexError"]
       ELSE [reply |-> "card",
             card |-> format_word_card(index(found.meanings, meaning_idx), word)]

\* words carried by the callback data of a meaning button
SelectionWords == {<<"h", "u", "s">>, <<"v", "a", "r", "a">>}

\* candidate indexes carried by the callback data
MeaningIndexes == {0 - 3, 0 - 1, 0, 1, 2}

\* a press of a meaning button reaches the bot
HandleMeaningSelection ==
    /\ pc = "serving"
    /\ result.op = "none"
    /\ \E word \in SelectionWords, meaning_idx \in MeaningIndexes :
           result' = [op |-> "select", word |-> word, index |-> meaning_idx,
                      out |-> handle_meaning_selection(word, meaning_idx)]
    /\ UNCHANGED <<pc, compiler_vars, files, data, strong_verbs, ambiguous_words, ordinals>>
    /\ UNCHANGED report_vars

\* the handler ends and the value it was given is dropped
Return ==
    /\ pc = "serving"
    /\ result.op /= "none"
    /\ result' = [op |-> "none"]
    /\ UNCHANGED <<pc, compiler_vars, files, data, strong_verbs, ambiguous_words, ordinals>>
    /\ UNCHANGED report_vars

Next ==
    \/ Collect
    \/ BeginProcessing
    \/ ProcessEntry
    \/ AddInflectedForms
    \/ Finish
    \/ Startup
    \/ Lookup
    \/ GetSuggestions
    \/ GetStats
    \/ RenderCard
    \/ HandleMeaningSelection
    \/ Return

Spec == Init /\ [][Next]_vars


\* the compiler's input of the runs that vary the state of the files
StartupInputs ==
    { << RawEntry(<<"H", "u", "s">>, <<"n", "n">>, <<"n", "n", "_", "6", "n", "_", "h", "u", "s">>), RawEntry(<<"v", "a", "r", "a">>, <<"v", "b">>, <<"v", "b", "_", "4", "m", "_", "v", "a", "r", "a">>) >> }

\* the same run, over one input and every state of the table files
InitStartup ==
    /\ raw \in StartupInputs
    /\ pc = "collect"
    /\ idx = 1
    /\ all_entries = <<>>
    /\ dictionary = <<>>
    /\ pending = None
    /\ data = <<>>
    /\ strong_verbs = <<>>
    /\ ambiguous_words = <<>>
    /\ ordinals = <<>>
    /\ files \in AnyFiles
    /\ result = [op |-> "none"]
    /\ NoReports

NextStartup ==
    \/ Collect
    \/ BeginProcessing
    \/ ProcessEntry
    \/ AddInflectedForms
    \/ Finish
    \/ Startup
    \/ Lookup
    \/ Return

SpecStartup == InitStartup /\ [][NextStartup]_vars

\* candidates of one word that is no named exception, one per part-of-speech code
\* (two for nn), and one without partOfSpeech
ResolvePool ==
    { RawEntry(<<"l", "e">>, <<"v", "b">>, <<"v", "b", "_", "1", "a", "_", "l", "a", "g", "a">>),
      RawEntry(<<"l", "e">>, <<"a", "v">>, <<"a", "v", "_", "1", "_", "f", "i", "n">>),
      RawEntry(<<"l", "e">>, <<"n", "n">>, <<"n", "n", "_", "2", "u", "_", "s", "t", "o", "l">>),
      RawEntry(<<"L", "e">>, <<"n", "n", "m">>, <<"n", "n", "_", "3", "u", "_", "f", "i", "l", "m">>),
      RawEntry(<<"l", "e">>, <<"a", "b">>, <<"a", "b", "_", "i", "_", "i", "n", "t", "e">>),
      RawEntry(<<"l", "e">>, <<"p", "m">>, <<"p", "m", "_", "f", "p", "h", "_", "a", "l", "i", "c", "e">>),
      RawEntry(<<"l", "e">>, <<"p", "n">>, <<"p", "n", "_", "o", "_", "d", "e", "n">>),
      RawEntry(<<"l", "e">>, <<"n", "l">>, <<"n", "l", "_", "g", "_", "t", "r", "e">>),
      [writtenForm |-> <<"l", "e">>, paradigm |-> <<"i", "n", "_", "i", "_", "a", "j">>] }

ResolveInputs == UNION {[1..n -> ResolvePool] : n \in 0..(MaxEntries + 1)}

\* the compiler alone, over the candidates of one word
InitResolve ==
    /\ raw \in ResolveInputs
    /\ pc = "collect"
    /\ idx = 1
    /\ all_entries = <<>>
    /\ dictionary = <<>>
    /\ pending = None
    /\ data = <<>>
    /\ strong_verbs = <<>>
    /\ ambiguous_words = <<>>
    /\ ordinals = <<>>
    /\ files = FileSystem(File("missing", <<>>), File("ok", <<>>), File("ok", <<>>),
                          File("ok", <<>>), File("ok", <<>>))
    /\ result = [op |-> "none"]
    /\ NoReports

NextCompile ==
    \/ Collect
    \/ BeginProcessing
    \/ ProcessEntry
    \/ AddInflectedForms
    \/ Finish

SpecResolve == InitResolve /\ [][NextCompile]_vars

\* words handed to generate_forms: every ending its rules distinguish
FormWords ==
    { <<>>, <<"a">>, <<"e">>, <<"u", "m">>, <<"h", "u", "s">>, <<"Ä", "p", "p", "l", "e">>, <<"ö", "g", "a">>, <<"c", "e", "n", "t", "r", "u", "m">>, <<"b", "i">>, <<"f", "r", "ö">>,
      <<"f", "l", "i", "c", "k", "a">>, <<"k", "ö", "p", "a">>, <<"v", "ä", "x", "a">>, <<"l", "e", "v", "a">>, <<"g", "å">>, <<"s", "t", "o", "r">>, <<"r", "ö", "d">>, <<"l", "ä", "t", "t">>, <<"f", "i", "n">> }

\* part-of-speech codes; <<>> is what a missing feature defaults to
FormPos == { <<"n", "n">>, <<"n", "n", "m">>, <<"v", "b">>, <<"v", "b", "m">>, <<"a", "v">>, <<"a", "b">>, <<>> }

\* paradigm names: one or two of the markers the rules look for
FormParadigms ==
    { <<"n", "n", "_", "0", "u", "_", "t", "r", "o">>, <<"n", "n", "_", "1", "u", "_", "f", "l", "i", "c", "k", "a">>, <<"n", "n", "_", "2", "u", "_", "s", "t", "o", "l">>, <<"n", "n", "_", "3", "u", "_", "f", "i", "l", "m">>, <<"n", "n", "_", "4", "u", "_", "b", "o", "k">>,
      <<"n", "n", "_", "5", "n", "_", "s", "a", "l", "d", "o">>, <<"n", "n", "_", "6", "n", "_", "h", "u", "s">>, <<"n", "n", "_", "5", "n", "_", "2", "x">>, <<"n", "n", "_", "6", "n", "_", "3", "x">>,
      <<"v", "b", "_", "4", "m", "_", "v", "a", "r", "a">>, <<"v", "b", "_", "2", "m", "_", "h", "a">>, <<"v", "b", "_", "1", "a", "_", "l", "a", "g", "a">>, <<"v", "b", "_", "v", "a", "_", "k", "o", "k", "a">>, <<"v", "b", "_", "2", "a", "_", "l", "e", "v", "a">>,
      <<"v", "b", "_", "2", "a", "_", "1", "x">>, <<"v", "b", "_", "3", "a", "_", "s", "y">>, <<"a", "v", "_", "1", "_", "f", "i", "n">>, <<"n", "n", "m", "_", "5", "n", "_", "r", "i", "s">>, <<"v", "b", "_", "4", "a", "_", "g", "i", "v", "a">>, <<>> }

\* the compiler alone, over one entry
InitForms ==
    /\ \E w \in FormWords, pos \in FormPos, paradigm \in FormParadigms :
           raw = << RawEntry(w, pos, paradigm) >>
    /\ pc = "collect"
    /\ idx = 1
    /\ all_entries = <<>>
    /\ dictionary = <<>>
    /\ pending = None
    /\ data = <<>>
    /\ strong_verbs = <<>>
    /\ ambiguous_words = <<>>
    /\ ordinals = <<>>
    /\ files = FileSystem(File("missing", <<>>), File("ok", <<>>), File("ok", <<>>),
                          File("ok", <<>>), File("ok", <<>>))
    /\ result = [op |-> "none"]
    /\ NoReports

SpecForms == InitForms /\ [][NextCompile]_vars


----------------------------------------------------------------------------
(* Issue reports: SwedishBot.handle_report, one coroutine per pressed button *)

\* str.split(sep, 1) of a text that holds sep: the text before the first sep and
\* everything after it
split_once(s, sep) ==
    LET first == CHOOSE i \in 1..Len(s) : s[i] = sep /\ \A j \in 1..(i - 1) : s[j] /= sep
    IN  << SubSeq(s, 1, first - 1), SubSeq(s, first + 1, Len(s)) >>

Digit(n) == << "0", "1", "2", "3", "4", "5", "6", "7", "8", "9" >>[n + 1]

\* the format specs %04d and %02d of datetime.isoformat
RECURSIVE ZeroPad(_, _)
ZeroPad(n, width) ==
    IF width = 0 THEN <<>> ELSE ZeroPad(n \div 10, width - 1) \o << Digit(n % 10) >>

\* datetime.isoformat of a message date: Telegram dates are whole seconds in UTC
isoformat(date) ==
    ZeroPad(date.year, 4) \o <<"-">> \o ZeroPad(date.month, 2) \o <<"-">> \o ZeroPad(date.day, 2)
    \o <<"T">> \o ZeroPad(date.hour, 2) \o <<":">> \o ZeroPad(date.minute, 2) \o <<":">>
    \o ZeroPad(date.second, 2) \o <<"+", "0", "0", ":", "0", "0">>

\* callback data of the three "report:{word}" buttons; a word may hold a colon
ReportData == { <<"r", "e", "p", "o", "r", "t", ":", "h", "u", "s">>, <<"r", "e", "p", "o", "r", "t", ":", "a", ":", "b">> }

\* update.effective_user
ReportUsers ==
    { [id |-> 1, username |-> <<"a", "n", "n", "a">>, first_name |-> <<"A", "n", "n", "a">>],
      [id |-> 2, username |-> <<"b", "o">>, first_name |-> <<"B", "o">>] }

\* date of the message that carries the pressed button
MessageDates == { [year |-> 2025, month |-> 1, day |-> 9, hour |-> 8, minute |-> 0, second |-> 7] }

\* the record handle_report builds for one report
user_info(user, word, date) ==
    [user_id |-> user.id, username |-> user.username, first_name |-> user.first_name,
     word |-> word, timestamp |-> isoformat(date)]

\* data/reported_words.json before the first report: absent, an empty list, a list of
\* one record, or text that is not JSON
ReportLogs ==
    { File("missing", <<>>), File("ok", <<>>),
      File("ok", << user_info([id |-> 2, username |-> <<"b", "o">>, first_name |-> <<"B", "o">>], <<"h", "u", "s">>,
                              [year |-> 2024, month |-> 12, day |-> 31, hour |-> 23,
                               minute |-> 59, second |-> 0]) >>),
      File("bad_json", <<>>) }

\* the service running with no table file found, and no report handled yet
InitReports ==
    /\ raw = <<>>
    /\ pc = "serving"
    /\ idx = 1
    /\ all_entries = <<>>
    /\ dictionary = <<>>
    /\ pending = None
    /\ data = <<>>
    /\ strong_verbs = <<>>
    /\ ambiguous_words = <<>>
    /\ ordinals = <<>>
    /\ files = FileSystem(File("missing", <<>>), File("missing", <<>>), File("missing", <<>>),
                          File("missing", <<>>), File("missing", <<>>))
    /\ result = [op |-> "none"]
    /\ reported_words \in ReportLogs
    /\ handlers = [h \in Handlers |-> [pc |-> "idle"]]
    /\ log_at_start = reported_words

bot_vars == <<raw, pc, idx, all_entries, dictionary, pending, data, strong_verbs,
              ambiguous_words, result, ordinals, files>>

\* the try block's os.path.exists and json.load: the exception json.load raises
report_load_raises(file) ==
    CASE file.state = "bad_json" -> "JSONDecodeError"
      [] file.state = "bad_bytes" -> "UnicodeDecodeError"
      [] OTHER -> "none"

\* reports, as loaded: [] when the file does not exist
loaded_reports(file) == IF file.state = "missing" THEN <<>> ELSE file.content

\* a "report:" button is pressed: the coroutine is created and runs up to its first
\* await, the answer to the callback query; coroutines are numbered as they are created
PressReport(h) ==
    /\ pc = "serving"
    /\ handlers[h].pc = "idle"
    /\ \A g \in Handlers : g < h => handlers[g].pc /= "idle"
    /\ \E query_data \in ReportData, user \in ReportUsers, date \in MessageDates :
           handlers' = [handlers EXCEPT ![h] =
                            [pc |-> "answer", data |-> query_data, user |-> user,
                             date |-> date]]
    /\ UNCHANGED <<bot_vars, reported_words, log_at_start>>

\* query.answer raises (the query is too old, the network fails): the exception
\* leaves the handler before its try block
AnswerFails(h) ==
    /\ handlers[h].pc = "answer"
    /\ handlers' = [handlers EXCEPT ![h].pc = "failed"]
    /\ UNCHANGED <<bot_vars, reported_words, log_at_start>>

\* the save step as a coroutine that read the log before its first await would run it
SaveStaleReport(h) ==
    LET word == split_once(handlers[h].data, ":")[2]
        info == user_info(handlers[h].user, word, handlers[h].date)
        reports == Append(loaded_reports(log_at_start), info)
    IN  /\ handlers[h].pc = "answer"
        /\ report_load_raises(reported_words) = "none"
        /\ reported_words' = File("ok", reports)
        /\ handlers' = [handlers EXCEPT ![h] =
                            [pc |-> "markup", data |-> @.data, user |-> @.user,
                             date |-> @.date, word |-> word, user_info |-> info,
                             reports |-> reports]]
        /\ UNCHANGED <<bot_vars, log_at_start>>

\* query.answer returns and the handler runs to its next await: it splits the callback
\* data, builds the record, loads the log, appends the record and writes the log back,
\* then awaits edit_message_reply_markup; no await lies between the load and the write
SaveReport(h) ==
    LET word == split_once(handlers[h].data, ":")[2]
        info == user_info(handlers[h].user, word, handlers[h].date)
        reports == Append(loaded_reports(reported_words), info)
    IN  /\ handlers[h].pc = "answer"
        /\ report_load_raises(reported_words) = "none"
        /\ reported_words' = File("ok", reports)
        /\ handlers' = [handlers EXCEPT ![h] =
                            [pc |-> "markup", data |-> @.data, user |-> @.user,
                             date |-> @.date, word |-> word, user_info |-> info,
                             reports |-> reports]]
        /\ UNCHANGED <<bot_vars, log_at_start>>

\* query.answer returns and json.load raises: the except clause takes over and awaits
\* the reply that apologises; the file is left as it was
SaveFails(h) ==
    LET word == split_once(handlers[h].data, ":")[2]
        info == user_info(handlers[h].user, word, handlers[h].date)
    IN  /\ handlers[h].pc = "answer"
        /\ report_load_raises(reported_words) /= "none"
        /\ handlers' = [handlers EXCEPT ![h] =
                            [pc |-> "apology", data |-> @.data, user |-> @.user,
                             date |-> @.date, word |-> word, user_info |-> info]]
        /\ UNCHANGED <<bot_vars, reported_words, log_at_start>>

\* edit_message_reply_markup returns: the confirmation is built and its reply awaited
MarkupRemoved(h) ==
    /\ handlers[h].pc = "markup"
    /\ handlers' = [handlers EXCEPT ![h].pc = "confirm"]
    /\ UNCHANGED <<bot_vars, reported_words, log_at_start>>

\* edit_message_reply_markup raises: the except clause awaits the reply that apologises
MarkupFails(h) ==
    /\ handlers[h].pc = "markup"
    /\ handlers' = [handlers EXCEPT ![h].pc = "apology"]
    /\ UNCHANGED <<bot_vars, reported_words, log_at_start>>

\* a reply_text returns or raises: the handler ends
ReplySent(h) ==
    /\ handlers[h].pc \in {"confirm", "apology"}
    /\ handlers' = [handlers EXCEPT ![h].pc = "done"]
    /\ UNCHANGED <<bot_vars, reported_words, log_at_start>>

NextReports ==
    \/ \E h \in Handlers : PressReport(h)
    \/ \E h \in Handlers : AnswerFails(h)
    \/ \E h \in Handlers : SaveReport(h)
    \/ \E h \in Handlers : SaveFails(h)
    \/ \E h \in Handlers : MarkupRemoved(h)
    \/ \E h \in Handlers : MarkupFails(h)
    \/ \E h \in Handlers : ReplySent(h)

SpecReports == InitReports /\ [][NextReports]_vars
----------------------------------------------------------------------------
(* Notions the properties are stated with *)

\* lowercase-and-trim of a query, trimming first
Normalized(w) == Lower(Strip(w))

\* an entry of the lexicon that is a FormEntry
IsFormEntry(e) == "is_form" \in DOMAIN e

\* the raw feature maps that carry a writtenForm
WithWrittenForm == {i \in DOMAIN raw : "writtenForm" \in DOMAIN raw[i]}

\* the surface forms that occur, lowercased, as a writtenForm of the input
RawWords == {Lower(raw[i].writtenForm) : i \in WithWrittenForm}

\* the raw candidates of a surface form, in input order
CandidatesOf(w) ==
    LET Is(e) == "writtenForm" \in DOMAIN e /\ Lower(e.writtenForm) = w
    IN SelectSeq(raw, Is)

\* the values of a forms table, in table order
FormValues(forms) ==
    IF IsList(forms) THEN forms.list
    ELSE IF IsDict(forms) THEN [i \in DOMAIN forms.dict |-> forms.dict[i][2]]
    ELSE <<>>

\* the surface forms a stored CanonicalEntry e hands to the form explosion
GeneratedBy(e) ==
    IF "forms" \in DOMAIN e
    THEN {v \in {FormValues(e.forms)[i] : i \in DOMAIN FormValues(e.forms)} :
             form_wanted(e.type, e.word, v)}
    ELSE {}

\* position of a base word in processing order
PositionOf(w) == CHOOSE i \in DOMAIN all_entries : all_entries[i].key = w

\* the processed base words that generate the surface form v
GeneratorsOf(v) ==
    {i \in DOMAIN all_entries :
        /\ Has(dictionary, all_entries[i].key)
        /\ ~IsFormEntry(Get(dictionary, all_entries[i].key))
        /\ v \in GeneratedBy(Get(dictionary, all_entries[i].key))}

\* the keys of the lexicon that get_suggestions may return for a prefix, in order
MatchingBaseWords(prefix) ==
    LET Matches(kv) == ~IsFormEntry(kv.val) /\ StartsWith(kv.key, prefix)
        kept == SelectSeq(data, Matches)
    IN [i \in DOMAIN kept |-> kept[i].key]

Min(a, b) == IF a <= b THEN a ELSE b

----------------------------------------------------------------------------
(* Properties *)

\* C1: lookup(w) depends on k = lowercase-and-trim(w) alone and follows strict
\* precedence: the override record of k if k is a key of the strong-verb table,
\* else the full candidate list if k is a key of the ambiguous-word table, else
\* lexicon[k] if k is a key of the lexicon, else the None value.
C1_LookupPrecedence ==
    (pc = "serving" /\ result.op = "lookup") =>
        LET k == Normalized(result.word)
        IN /\ Has(strong_verbs, k) =>
                  result.out = [ambiguous |-> FALSE, data |-> Get(strong_verbs, k),
                                word |-> k]
           /\ (~Has(strong_verbs, k) /\ Has(ambiguous_words, k)) =>
                  result.out = [ambiguous |-> TRUE, meanings |-> Get(ambiguous_words, k),
                                word |-> k]
           /\ (~Has(strong_verbs, k) /\ ~Has(ambiguous_words, k) /\ Has(data, k)) =>
                  result.out = [ambiguous |-> FALSE, data |-> Get(data, k), word |-> k]
           /\ (~Has(strong_verbs, k) /\ ~Has(ambiguous_words, k) /\ ~Has(data, k)) =>
                  result.out = None

\* a query with capitals and a trailing blank whose key is in all three tables
C1_Witness ==
    /\ pc = "serving"
    /\ result.op = "lookup"
    /\ result.word /= Normalized(result.word)
    /\ Has(strong_verbs, Normalized(result.word))
    /\ Has(ambiguous_words, Normalized(result.word))
    /\ Has(data, Normalized(result.word))

\* C2 as stated: lookup of any key of the ambiguous-word table returns
\* ambiguous=true with all candidate meanings in stored order.
C2_AmbiguousAlwaysListed ==
    (pc = "serving" /\ result.op = "lookup" /\ Has(ambiguous_words, result.word)) =>
        /\ result.out /= None
        /\ result.out.ambiguous = TRUE
        /\ "meanings" \in DOMAIN result.out
        /\ result.out.meanings = Get(ambiguous_words, result.word)

\* C2 as amended: a query whose lowercased, trimmed form is a key of the
\* ambiguous-word table and not a key of the strong-verb override table returns
\* ambiguous=true with all candidate meanings in stored order, and no data record.
C2_AmbiguousUnlessOverridden ==
    (/\ pc = "serving"
     /\ result.op = "lookup"
     /\ Has(ambiguous_words, Normalized(result.word))
     /\ ~Has(strong_verbs, Normalized(result.word))) =>
        /\ result.out /= None
        /\ result.out.ambiguous = TRUE
        /\ DOMAIN result.out = {"ambiguous", "meanings", "word"}
        /\ result.out.meanings = Get(ambiguous_words, Normalized(result.word))

\* an ambiguous word that the lexicon also holds is returned with two candidates
C2_Witness ==
    /\ pc = "serving"
    /\ result.op = "lookup"
    /\ Has(ambiguous_words, Normalized(result.word))
    /\ ~Has(strong_verbs, Normalized(result.word))
    /\ Has(data, Normalized(result.word))
    /\ Len(result.out.meanings) = 2

\* C3: after compilation no key occurs twice, and every surface form that occurs
\* (lowercased) as a writtenForm is a key whose entry is a CanonicalEntry with
\* word = w built from one of the raw candidates of w.
C3_OneCanonicalPerBaseWord ==
    pc = "done" =>
        /\ \A i, j \in DOMAIN dictionary :
               dictionary[i].key = dictionary[j].key => i = j
        /\ \A w \in RawWords :
               /\ Has(dictionary, w)
               /\ ~IsFormEntry(Get(dictionary, w))
               /\ Get(dictionary, w).word = w
               /\ \E i \in DOMAIN CandidatesOf(w) :
                      Get(dictionary, w) = base_entry(w, CandidatesOf(w)[i])

\* a base word that an earlier base word generates as one of its forms
C3_Witness ==
    /\ pc = "done"
    /\ \E w \in RawWords :
           \E i \in GeneratorsOf(w) :
               /\ i < PositionOf(w)
               /\ ~IsFormEntry(Get(dictionary, w))

\* C4: the form explosion leaves every key that is already in the lexicon where
\* it is and with the value it has.
C4_FormsNeverOverwrite ==
    [][pc = "explode" =>
          /\ Len(dictionary') >= Len(dictionary)
          /\ \A i \in DOMAIN dictionary : dictionary'[i] = dictionary[i]]_vars

\* the form explosion of a base word has just run and skipped a generated form
\* that was a key already: the key still holds the CanonicalEntry of that form or
\* the FormEntry of the base word that generated it first
C4_Witness ==
    /\ pc = "process"
    /\ idx > 1
    /\ idx - 1 <= Len(all_entries)
    /\ LET b == all_entries[idx - 1].key
       IN \E v \in GeneratedBy(Get(dictionary, b)) :
              \/ ~IsFormEntry(Get(dictionary, v))
              \/ Get(dictionary, v).base_word /= b

\* C5: in the compiled lexicon the base_word of every FormEntry is a key whose
\* entry is a CanonicalEntry with that word.
C5_BaseWordResolves ==
    pc = "done" =>
        \A i \in DOMAIN dictionary :
            IsFormEntry(dictionary[i].val) =>
                /\ Has(dictionary, dictionary[i].val.base_word)
                /\ ~IsFormEntry(Get(dictionary, dictionary[i].val.base_word))
                /\ Get(dictionary, dictionary[i].val.base_word).word =
                       dictionary[i].val.base_word

\* a compiled lexicon that holds FormEntry records of two base words
C5_Witness ==
    /\ pc = "done"
    /\ \E i, j \in DOMAIN dictionary :
           /\ IsFormEntry(dictionary[i].val)
           /\ IsFormEntry(dictionary[j].val)
           /\ dictionary[i].val.base_word /= dictionary[j].val.base_word

\* the noun CanonicalEntry records with a 4-slot forms table
NounTables ==
    {i \in DOMAIN dictionary :
        /\ ~IsFormEntry(dictionary[i].val)
        /\ dictionary[i].val.type = "noun"
        /\ "forms" \in DOMAIN dictionary[i].val
        /\ IsList(dictionary[i].val.forms)
        /\ Len(dictionary[i].val.forms.list) = 4}

\* the slot values of a noun table the round trip is about
RoundTripSlots(e) ==
    {v \in {e.forms.list[n] : n \in DOMAIN e.forms.list} : v /= <<"-">> /\ v /= e.word}

\* C6 as stated: every slot value of a noun CanonicalEntry b other than '-' and b
\* is a key whose entry is a FormEntry with base_word = b.
C6_NounSlotsRoundTrip ==
    pc = "done" =>
        \A i \in NounTables :
            \A v \in RoundTripSlots(dictionary[i].val) :
                /\ Has(dictionary, v)
                /\ IsFormEntry(Get(dictionary, v))
                /\ Get(dictionary, v).base_word = dictionary[i].key

\* C6 as amended: every such slot value v is a key; if v is itself a base word of
\* the input its entry is the CanonicalEntry of v; otherwise its entry is a
\* FormEntry whose base_word is the first base word, in processing order, that
\* generates v.
C6_NounSlotsFirstWriter ==
    pc = "done" =>
        \A i \in NounTables :
            \A v \in RoundTripSlots(dictionary[i].val) :
                /\ Has(dictionary, v)
                /\ IF v \in RawWords
                   THEN /\ ~IsFormEntry(Get(dictionary, v))
                        /\ Get(dictionary, v).word = v
                   ELSE /\ IsFormEntry(Get(dictionary, v))
                        /\ \E g \in GeneratorsOf(v) :
                               /\ \A h \in GeneratorsOf(v) : g <= h
                               /\ Get(dictionary, v).base_word = all_entries[g].key

\* two nouns generate the same slot value: it leads back to the noun processed
\* first and not to the other
C6_Witness ==
    /\ pc = "done"
    /\ \E i \in NounTables :
           \E v \in RoundTripSlots(dictionary[i].val) :
               /\ IsFormEntry(Get(dictionary, v))
               /\ Get(dictionary, v).base_word /= dictionary[i].key
    /\ \E i \in NounTables :
           \E v \in RoundTripSlots(dictionary[i].val) :
               /\ IsFormEntry(Get(dictionary, v))
               /\ Get(dictionary, v).base_word = dictionary[i].key

\* the first candidate of w, in input order, that satisfies Forced
FirstCandidate(w, Forced(_)) ==
    LET c == CandidatesOf(w)
    IN c[CHOOSE i \in DOMAIN c : Forced(c[i]) /\ \A j \in 1..(i - 1) : ~Forced(c[j])]

HasCandidate(w, Forced(_)) ==
    w \in RawWords /\ \E i \in DOMAIN CandidatesOf(w) : Forced(CandidatesOf(w)[i])

IsVaraParadigm(e) == "paradigm" \in DOMAIN e /\ e.paradigm = <<"v", "b", "_", "4", "m", "_", "v", "a", "r", "a">>

IsHaParadigm(e) == "paradigm" \in DOMAIN e /\ e.paradigm = <<"v", "b", "_", "2", "m", "_", "h", "a">>

IsAdjectiveCandidate(e) ==
    "partOfSpeech" \in DOMAIN e /\ StartsWith(e.partOfSpeech, <<"a", "v">>)

\* the first candidate of w, in input order, among those of lowest priority number
GenericCandidate(w) ==
    LET c == CandidatesOf(w)
        Lowest(e) == \A j \in DOMAIN c : Priority(e) <= Priority(c[j])
    IN FirstCandidate(w, Lowest)

\* C8: 'vara' resolves to its candidate with paradigm vb_4m_vara whenever one
\* exists, giving type=verb and the forms vara, är, var, varit; 'ha' resolves to
\* its candidate with paradigm vb_2m_ha whenever one exists; 'stor' resolves to its
\* first adjective candidate whenever one exists; when the forced candidate is
\* absent the generic priority rule applies.
C8_NamedExceptions ==
    pc = "done" =>
        /\ HasCandidate(<<"v", "a", "r", "a">>, IsVaraParadigm) =>
               /\ Get(dictionary, <<"v", "a", "r", "a">>).paradigm = <<"v", "b", "_", "4", "m", "_", "v", "a", "r", "a">>
               /\ Get(dictionary, <<"v", "a", "r", "a">>).type = "verb"
               /\ "forms" \in DOMAIN Get(dictionary, <<"v", "a", "r", "a">>)
               /\ Get(dictionary, <<"v", "a", "r", "a">>).forms =
                      VerbForms(<<"v", "a", "r", "a">>, <<"ä", "r">>, <<"v", "a", "r">>, <<"v", "a", "r", "i", "t">>)
        /\ HasCandidate(<<"h", "a">>, IsHaParadigm) =>
               Get(dictionary, <<"h", "a">>) =
                   base_entry(<<"h", "a">>, FirstCandidate(<<"h", "a">>, IsHaParadigm))
        /\ HasCandidate(<<"s", "t", "o", "r">>, IsAdjectiveCandidate) =>
               Get(dictionary, <<"s", "t", "o", "r">>) =
                   base_entry(<<"s", "t", "o", "r">>, FirstCandidate(<<"s", "t", "o", "r">>, IsAdjectiveCandidate))
        /\ \A w \in {<<"v", "a", "r", "a">>, <<"h", "a">>, <<"s", "t", "o", "r">>} \cap RawWords :
               (/\ ~HasCandidate(<<"v", "a", "r", "a">>, IsVaraParadigm) \/ w /= <<"v", "a", "r", "a">>
                /\ ~HasCandidate(<<"h", "a">>, IsHaParadigm) \/ w /= <<"h", "a">>
                /\ ~HasCandidate(<<"s", "t", "o", "r">>, IsAdjectiveCandidate) \/ w /= <<"s", "t", "o", "r">>) =>
                   Get(dictionary, w) = base_entry(w, GenericCandidate(w))

\* What the compiler does for 'vara': the entry is built from the first candidate
\* with paradigm vb_4m_vara, and is the verb with the four forms only when that
\* candidate's partOfSpeech starts with 'vb'; the other parts of C8 as stated.
C8_ForcedByParadigmOnly ==
    pc = "done" =>
        /\ HasCandidate(<<"v", "a", "r", "a">>, IsVaraParadigm) =>
               /\ Get(dictionary, <<"v", "a", "r", "a">>) =
                      base_entry(<<"v", "a", "r", "a">>, FirstCandidate(<<"v", "a", "r", "a">>, IsVaraParadigm))
               /\ StartsWith(Feat(FirstCandidate(<<"v", "a", "r", "a">>, IsVaraParadigm),
                                  "partOfSpeech", <<>>), <<"v", "b">>) =>
                      /\ Get(dictionary, <<"v", "a", "r", "a">>).type = "verb"
                      /\ Get(dictionary, <<"v", "a", "r", "a">>).forms =
                             VerbForms(<<"v", "a", "r", "a">>, <<"ä", "r">>, <<"v", "a", "r">>, <<"v", "a", "r", "i", "t">>)
        /\ HasCandidate(<<"h", "a">>, IsHaParadigm) =>
               Get(dictionary, <<"h", "a">>) =
                   base_entry(<<"h", "a">>, FirstCandidate(<<"h", "a">>, IsHaParadigm))
        /\ HasCandidate(<<"s", "t", "o", "r">>, IsAdjectiveCandidate) =>
               Get(dictionary, <<"s", "t", "o", "r">>) =
                   base_entry(<<"s", "t", "o", "r">>, FirstCandidate(<<"s", "t", "o", "r">>, IsAdjectiveCandidate))
        /\ \A w \in {<<"v", "a", "r", "a">>, <<"h", "a">>, <<"s", "t", "o", "r">>} \cap RawWords :
               (/\ ~HasCandidate(<<"v", "a", "r", "a">>, IsVaraParadigm) \/ w /= <<"v", "a", "r", "a">>
                /\ ~HasCandidate(<<"h", "a">>, IsHaParadigm) \/ w /= <<"h", "a">>
                /\ ~HasCandidate(<<"s", "t", "o", "r">>, IsAdjectiveCandidate) \/ w /= <<"s", "t", "o", "r">>) =>
                   Get(dictionary, w) = base_entry(w, GenericCandidate(w))

\* C9: get_suggestions returns, in lexicon order and without gaps, the first keys
\* of the lexicon whose entry is not a FormEntry and which start with
\* lowercase-and-trim(partial): the result is an initial part of that sequence,
\* and for a limit of at least 1 it is as long as the limit and the lexicon allow.
C9_SuggestionsAreFirstBaseWords ==
    (pc = "serving" /\ result.op = "suggest") =>
        LET matching == MatchingBaseWords(Normalized(result.partial))
        IN /\ Len(result.out) <= Len(matching)
           /\ result.out = SubSeq(matching, 1, Len(result.out))
           /\ result.limit >= 1 => Len(result.out) = Min(result.limit, Len(matching))

\* the limit is reached with two base words although a matching FormEntry key
\* lies between them in the lexicon
C9_Witness ==
    /\ pc = "serving"
    /\ result.op = "suggest"
    /\ Len(result.out) = 2
    /\ result.limit = 2
    /\ result.partial /= Normalized(result.partial)
    /\ \E i, j, k \in DOMAIN data :
           /\ i < j /\ j < k
           /\ data[i].key = result.out[1]
           /\ data[k].key = result.out[2]
           /\ IsFormEntry(data[j].val)
           /\ StartsWith(data[j].key, Normalized(result.partial))

\* C10: for every limit >= 0 the sequence get_suggestions returns has at most
\* limit elements.
C10_AtMostLimit ==
    (pc = "serving" /\ result.op = "suggest" /\ result.limit >= 0) =>
        Len(result.out) <= result.limit

\* What get_suggestions does: at most limit elements for limit >= 1, and one
\* element for limit = 0 whenever a base word matches.
C10_AtMostLimitOrOne ==
    (pc = "serving" /\ result.op = "suggest" /\ result.limit >= 0) =>
        /\ result.limit >= 1 => Len(result.out) <= result.limit
        /\ result.limit = 0 =>
               Len(result.out) = Min(1, Len(MatchingBaseWords(Normalized(result.partial))))
----------------------------------------------------------------------------
(* Statistics *)

\* the entries of the lexicon, by position
LexiconEntries(P(_)) == {i \in 1..Len(data) : P(data[i].val)}

HasType(t, e) == "type" \in DOMAIN e /\ e.type = t

IsNoun(e) == HasType("noun", e)

IsVerb(e) == HasType("verb", e)

IsAdjective(e) == HasType("adjective", e)

IsBaseEntry(e) == ~IsFormEntry(e)

\* C11: get_stats returns the counts of the lexicon as it is at the call: the number
\* of keys; base words and word forms split by is_form and add up to the total;
\* nouns, verbs and adjectives count every entry of that type, base or form, and add
\* up to at most the total.
C11_StatsCountTheLexicon ==
    (pc = "serving" /\ result.op = "stats") =>
        /\ result.out.total_entries = Cardinality(Keys(data))
        /\ result.out.word_forms = Cardinality(LexiconEntries(IsFormEntry))
        /\ result.out.base_words = Cardinality(LexiconEntries(IsBaseEntry))
        /\ result.out.base_words + result.out.word_forms = result.out.total_entries
        /\ result.out.nouns = Cardinality(LexiconEntries(IsNoun))
        /\ result.out.verbs = Cardinality(LexiconEntries(IsVerb))
        /\ result.out.adjectives = Cardinality(LexiconEntries(IsAdjective))
        /\ result.out.nouns + result.out.verbs + result.out.adjectives
               <= result.out.total_entries

\* statistics of a lexicon with word forms of a typed base word and an entry that is
\* neither noun, verb nor adjective
C11_Witness ==
    /\ pc = "serving"
    /\ result.op = "stats"
    /\ result.out.word_forms > 0
    /\ result.out.base_words > 1
    /\ result.out.nouns + result.out.verbs + result.out.adjectives < result.out.total_entries
    /\ \E i \in LexiconEntries(IsFormEntry) : IsNoun(data[i].val) \/ IsVerb(data[i].val)

----------------------------------------------------------------------------
(* Start of the service *)

\* the table a tier holds when its file degrades to empty unless it is readable
Degraded(path) == IF files[path].state = "ok" THEN files[path].content ELSE <<>>

TiersDegraded ==
    /\ data = Degraded(dict_path)
    /\ ambiguous_words = Degraded("ambiguous")
    /\ ordinals = Degraded("ordinals")
    /\ strong_verbs = Degraded("strong_verbs")

LoadedPaths == {dict_path, "ambiguous", "ordinals", "strong_verbs"}

\* C12: whatever the state of each table file, the construction of the service
\* completes, a tier whose file is absent or cannot be parsed is empty and the other
\* tiers hold the content of their files, and a lookup then gives a record, a
\* candidate list or the miss value.
C12_StartupDegrades ==
    /\ pc /= "startup_failed"
    /\ pc = "serving" => TiersDegraded
    /\ (pc = "serving" /\ result.op = "lookup") =>
           \/ result.out = None
           \/ "ambiguous" \in DOMAIN result.out

\* what the constructor does do: it completes unless a file it loads holds bytes that
\* are not text, and then each tier is its file's content or empty
C12_DegradesUnlessBadBytes ==
    /\ pc = "startup_failed" => \E path \in LoadedPaths : files[path].state = "bad_bytes"
    /\ pc = "serving" =>
           /\ TiersDegraded
           /\ \A path \in LoadedPaths : files[path].state /= "bad_bytes"

\* a start with one tier absent, one with invalid JSON, the others loaded
C12_Witness ==
    /\ pc = "serving"
    /\ files.compressed.state = "bad_json"
    /\ files.ambiguous.state = "missing"
    /\ files.strong_verbs.state = "ok"
    /\ data = <<>>
    /\ strong_verbs /= <<>>
    /\ result.op = "lookup"
    /\ result.out /= None

----------------------------------------------------------------------------
(* Choice of a meaning of an ambiguous word *)

\* a selection made for a word that lookup reports as ambiguous
SelectionOfAmbiguous ==
    /\ pc = "serving"
    /\ result.op = "select"
    /\ lookup(result.word) /= None
    /\ lookup(result.word).ambiguous

CandidateCount == Len(lookup(result.word).meanings)

Replied(kind) == "reply" \in DOMAIN result.out /\ result.out.reply = kind

\* C13: a selection for an ambiguous word whose index is outside
\* 0..len(meanings)-1 is answered with an error message: no exception leaves the
\* handler and no candidate is rendered.
C13_IndexChecked ==
    (SelectionOfAmbiguous /\ result.index \notin 0..(CandidateCount - 1)) =>
        Replied("error")

\* what the handler does do with an index: Python list indexing
C13_IndexedAsPythonList ==
    SelectionOfAmbiguous =>
        LET meanings == lookup(result.word).meanings
            n == CandidateCount
        IN /\ result.index \in 0..(n - 1) =>
                  /\ Replied("card")
                  /\ result.out.card =
                         format_word_card(meanings[result.index + 1], result.word)
           /\ result.index \in (0 - n)..(0 - 1) =>
                  /\ Replied("card")
                  /\ result.out.card =
                         format_word_card(meanings[n + result.index + 1], result.word)
           /\ (result.index >= n \/ result.index < 0 - n) =>
                  result.out = [raises |-> "IndexError"]

----------------------------------------------------------------------------
(* The generic choice among the candidates of a word *)

\* the priority number of a candidate: by the first two characters of partOfSpeech
PriorityNumber(e) ==
    LET code == IF "partOfSpeech" \in DOMAIN e
                THEN SubSeq(e.partOfSpeech, 1, Min(2, Len(e.partOfSpeech)))
                ELSE <<>>
    IN IF code = <<"v", "b">> THEN 1
       ELSE IF code = <<"a", "v">> THEN 2
       ELSE IF code = <<"n", "n">> THEN 3
       ELSE IF code = <<"a", "b">> THEN 4
       ELSE IF code = <<"p", "m">> THEN 10
       ELSE 99

\* the word is resolved by one of the three named exceptions
NamedException(w) ==
    \/ w = <<"v", "a", "r", "a">> /\ HasCandidate(w, IsVaraParadigm)
    \/ w = <<"h", "a">> /\ HasCandidate(w, IsHaParadigm)
    \/ w = <<"s", "t", "o", "r">> /\ HasCandidate(w, IsAdjectiveCandidate)

\* the first candidate of w, in input order, among those of lowest priority number
LowestNumberedFirst(w) ==
    LET c == CandidatesOf(w)
        Lowest(e) == \A j \in DOMAIN c : PriorityNumber(e) <= PriorityNumber(c[j])
    IN FirstCandidate(w, Lowest)

\* C14: a base word that no named exception handles is resolved to its candidate of
\* lowest priority number (vb 1, av 2, nn 3, ab 4, pm 10, any other or missing
\* code 99), and among candidates of equal number to the first one of the input.
C14_LowestNumberFirstInInput ==
    pc = "done" =>
        \A w \in RawWords :
            ~NamedException(w) =>
                Get(dictionary, w) = base_entry(w, LowestNumberedFirst(w))

\* a word resolved to its second candidate, which a different third one ties with
C14_Witness ==
    /\ pc = "done"
    /\ \E w \in RawWords :
           LET c == CandidatesOf(w)
           IN /\ ~NamedException(w)
              /\ Len(c) >= 3
              /\ PriorityNumber(c[2]) < PriorityNumber(c[1])
              /\ PriorityNumber(c[3]) = PriorityNumber(c[2])
              /\ base_entry(w, c[3]) /= base_entry(w, c[2])
              /\ Get(dictionary, w) = base_entry(w, c[2])

----------------------------------------------------------------------------
(* The rules of form generation *)

\* the entry that process_entry is working on or has just stored
InProcess == pc \in {"explode", "crashed"}

CurrentWord == all_entries[idx].key

CurrentCandidate == select_entry(CurrentWord, all_entries[idx].val)

CurrentPos == Feat(CurrentCandidate, "partOfSpeech", <<>>)

CurrentParadigm == Feat(CurrentCandidate, "paradigm", <<>>)

\* the forms process_entry obtained for that entry
FormsGenerated == pc = "explode" /\ pending.base_word = CurrentWord

\* w without a trailing suffix
Without(w, suffix) ==
    IF EndsWith(w, suffix) THEN SubSeq(w, 1, Len(w) - Len(suffix)) ELSE w

NounTable(a, b, c, d) == [list |-> <<a, b, c, d>>]

OtherVowels == {"o", "i", "u", "y", "å", "ä", "ö"}

\* the noun rules, first match first; a word that ends in none of the vowels counts
\* as ending in a consonant
NounRule(w, paradigm) ==
    IF Contains(paradigm, <<"_", "0">>) THEN NounTable(w, w \o <<"e", "n">>, <<"-">>, <<"-">>)
    ELSE IF Contains(paradigm, <<"_", "1">>)
    THEN NounTable(w, w \o <<"n">>, Without(w, <<"a">>) \o <<"o", "r">>, Without(w, <<"a">>) \o <<"o", "r", "n", "a">>)
    ELSE IF Contains(paradigm, <<"_", "2">>)
    THEN NounTable(w, w \o <<"e", "n">>, w \o <<"a", "r">>, w \o <<"a", "r", "n", "a">>)
    ELSE IF Contains(paradigm, <<"_", "3">>)
    THEN NounTable(w, w \o <<"e", "n">>, w \o <<"e", "r">>, w \o <<"e", "r", "n", "a">>)
    ELSE IF Contains(paradigm, <<"n", "n", "_", "5", "n">>)
    THEN IF EndsWith(w, <<"e">>)
         THEN NounTable(w, Without(w, <<"e">>) \o <<"e", "t">>, Without(w, <<"e">>) \o <<"e", "n">>,
                        Without(w, <<"e">>) \o <<"e", "n", "a">>)
         ELSE IF EndsWith(w, <<"a">>)
         THEN NounTable(w, Without(w, <<"a">>) \o <<"a", "t">>, Without(w, <<"a">>) \o <<"a", "n">>,
                        Without(w, <<"a">>) \o <<"a", "n", "a">>)
         ELSE IF EndsWith(w, <<"u", "m">>)
         THEN NounTable(w, Without(w, <<"u", "m">>) \o <<"e", "t">>, Without(w, <<"u", "m">>) \o <<"a">>,
                        Without(w, <<"u", "m">>) \o <<"a", "n", "a">>)
         ELSE IF w /= <<>> /\ w[Len(w)] \in OtherVowels
         THEN NounTable(w, w \o <<"t">>, w \o <<"n">>, w \o <<"n", "a">>)
         ELSE NounTable(w, w \o <<"e", "t">>, w \o <<"n">>, w \o <<"n", "a">>)
    ELSE IF Contains(paradigm, <<"_", "6">>) THEN NounTable(w, w \o <<"e", "t">>, w, w \o <<"e", "n">>)
    ELSE None

NounInProcess == InProcess /\ StartsWith(CurrentPos, <<"n", "n">>)

\* C15: the forms generated for a noun entry are those of the first matching noun
\* rule, for every word and paradigm; 'hus' with an 'ett, no change' paradigm gets
\* hus, huset, hus, husen.
C15_NounFormsByFirstRule ==
    NounInProcess =>
        /\ FormsGenerated
        /\ pending.forms = NounRule(CurrentWord, CurrentParadigm)
        /\ (CurrentWord = <<"h", "u", "s">> /\ CurrentParadigm = <<"n", "n", "_", "6", "n", "_", "h", "u", "s">>) =>
               pending.forms = NounTable(<<"h", "u", "s">>, <<"h", "u", "s", "e", "t">>, <<"h", "u", "s">>, <<"h", "u", "s", "e", "n">>)

\* the nn_5n rule is the first to match and the word is empty
EmptyWordByEnding ==
    /\ CurrentWord = <<>>
    /\ Contains(CurrentParadigm, <<"n", "n", "_", "5", "n">>)
    /\ \A marker \in {<<"_", "0">>, <<"_", "1">>, <<"_", "2">>, <<"_", "3">>} : ~Contains(CurrentParadigm, marker)

\* what generate_forms does for nouns: the rules, except that it raises where the
\* nn_5n rule meets the empty word
C15_NounFormsUnlessEmptyByEnding ==
    NounInProcess =>
        IF EmptyWordByEnding THEN pc = "crashed"
        ELSE /\ FormsGenerated
             /\ pending.forms = NounRule(CurrentWord, CurrentParadigm)

\* the regular verb rules: group 1, then group 2, by the markers of the paradigm
VerbRule(w, paradigm) ==
    LET s == Without(w, <<"a">>)
        group1 == Contains(paradigm, <<"1">>) \/ Contains(paradigm, <<"v", "a">>)
        group2 == Contains(paradigm, <<"2">>) /\ ~group1
        hard == s /= <<>> /\ s[Len(s)] \in {"p", "t", "k", "s", "x"}
    IN IF group1 /\ EndsWith(w, <<"a">>)
       THEN [dict |-> << <<<<"i", "n", "f", "i", "n", "i", "t", "i", "v", "e">>, w>>, <<<<"p", "r", "e", "s", "e", "n", "t">>, w \o <<"r">>>>,
                         <<<<"p", "a", "s", "t">>, s \o <<"a", "d", "e">>>>, <<<<"s", "u", "p", "i", "n", "e">>, s \o <<"a", "t">>>> >>]
       ELSE IF group2 /\ EndsWith(w, <<"a">>)
       THEN [dict |-> << <<<<"i", "n", "f", "i", "n", "i", "t", "i", "v", "e">>, w>>, <<<<"p", "r", "e", "s", "e", "n", "t">>, s \o <<"e", "r">>>>,
                         <<<<"p", "a", "s", "t">>, IF hard THEN s \o <<"t", "e">> ELSE s \o <<"d", "e">>>>,
                         <<<<"s", "u", "p", "i", "n", "e">>, s \o <<"t">>>> >>]
       ELSE None

IrregularParadigms == {<<"v", "b", "_", "4", "m", "_", "v", "a", "r", "a">>, <<"v", "b", "_", "2", "m", "_", "h", "a">>}

RegularVerbInProcess ==
    /\ InProcess
    /\ StartsWith(CurrentPos, <<"v", "b">>)
    /\ CurrentParadigm \notin IrregularParadigms

\* the entry of the last processed word, once its forms are exploded
LastProcessed == all_entries[idx - 1].key

RegularVerbDone ==
    /\ pc \in {"process", "done"}
    /\ idx > 1
    /\ LET c == select_entry(LastProcessed, all_entries[idx - 1].val)
       IN /\ StartsWith(Feat(c, "partOfSpeech", <<>>), <<"v", "b">>)
          /\ Feat(c, "paradigm", <<>>) \notin IrregularParadigms

FormEntriesOf(w) ==
    {i \in DOMAIN dictionary :
        IsFormEntry(dictionary[i].val) /\ dictionary[i].val.base_word = w}

\* C16: a verb entry with a regular paradigm gets the forms of group 1 or of group 2
\* when the word ends in 'a' and the paradigm carries that group's marker, and
\* otherwise no forms: its CanonicalEntry has no forms table and no FormEntry is
\* made for it.
C16_RegularVerbForms ==
    /\ RegularVerbInProcess =>
           /\ FormsGenerated
           /\ pending.forms = VerbRule(CurrentWord, CurrentParadigm)
           /\ ("forms" \in DOMAIN Get(dictionary, CurrentWord))
                  <=> (VerbRule(CurrentWord, CurrentParadigm) /= None)
    /\ (RegularVerbDone
          /\ VerbRule(LastProcessed,
                      Feat(select_entry(LastProcessed, all_entries[idx - 1].val),
                           "paradigm", <<>>)) = None) =>
           /\ "forms" \notin DOMAIN Get(dictionary, LastProcessed)
           /\ FormEntriesOf(LastProcessed) = {}

\* a group-2 verb whose stem ends in one of p, t, k, s, x, with its forms exploded
C16_Witness ==
    /\ RegularVerbDone
    /\ LastProcessed = <<"k", "ö", "p", "a">>
    /\ "forms" \in DOMAIN Get(dictionary, LastProcessed)
    /\ Get(dictionary, LastProcessed).forms
           = VerbForms(<<"k", "ö", "p", "a">>, <<"k", "ö", "p", "e", "r">>, <<"k", "ö", "p", "t", "e">>, <<"k", "ö", "p", "t">>)
    /\ Cardinality(FormEntriesOf(LastProcessed)) = 3

\* the adjective rule
AdjectiveRule(w) ==
    IF w = <<"s", "t", "o", "r">>
    THEN [dict |-> << <<<<"e", "n", "_", "f", "o", "r", "m">>, <<"s", "t", "o", "r">>>>, <<<<"e", "t", "t", "_", "f", "o", "r", "m">>, <<"s", "t", "o", "r", "t">>>>,
                      <<<<"p", "l", "u", "r", "a", "l">>, <<"s", "t", "o", "r", "a">>>>, <<<<"c", "o", "m", "p", "a", "r", "a", "t", "i", "v", "e">>, <<"s", "t", "ö", "r", "r", "e">>>>,
                      <<<<"s", "u", "p", "e", "r", "l", "a", "t", "i", "v", "e">>, <<"s", "t", "ö", "r", "s", "t">>>> >>]
    ELSE [dict |-> << <<<<"e", "n", "_", "f", "o", "r", "m">>, w>>,
                      <<<<"e", "t", "t", "_", "f", "o", "r", "m">>, IF EndsWith(w, <<"t">>) \/ EndsWith(w, <<"d">>)
                                     THEN w ELSE w \o <<"t">>>>,
                      <<<<"p", "l", "u", "r", "a", "l">>, IF EndsWith(w, <<"a">>) THEN w ELSE w \o <<"a">>>>,
                      <<<<"c", "o", "m", "p", "a", "r", "a", "t", "i", "v", "e">>, w \o <<"a", "r", "e">>>>,
                      <<<<"s", "u", "p", "e", "r", "l", "a", "t", "i", "v", "e">>, w \o <<"a", "s", "t">>>> >>]

AdjectiveInProcess == InProcess /\ StartsWith(CurrentPos, <<"a", "v">>)

\* C17: an adjective entry gets the forms of 'stor' or those of the regular rule,
\* and so always carries a forms table of five slots.
C17_AdjectiveForms ==
    AdjectiveInProcess =>
        /\ FormsGenerated
        /\ pending.forms = AdjectiveRule(CurrentWord)
        /\ "forms" \in DOMAIN Get(dictionary, CurrentWord)
        /\ Get(dictionary, CurrentWord).forms = pending.forms
        /\ Len(Get(dictionary, CurrentWord).forms.dict) = 5

\* a regular adjective that ends in 'd', whose ett form is the word itself
C17_Witness ==
    /\ AdjectiveInProcess
    /\ FormsGenerated
    /\ CurrentWord = <<"r", "ö", "d">>
    /\ Get(dictionary, CurrentWord).forms
           = AdjForms(<<"r", "ö", "d">>, <<"r", "ö", "d">>, <<"r", "ö", "d", "a">>, <<"r", "ö", "d", "a", "r", "e">>, <<"r", "ö", "d", "a", "s", "t">>)

----------------------------------------------------------------------------
(* Word forms as explanations *)

PositionLabels ==
    <<<<"s", "i", "n", "g", "u", "l", "a", "r", " ", "i", "n", "d", "e", "f", "i", "n", "i", "t", "e">>, <<"s", "i", "n", "g", "u", "l", "a", "r", " ", "d", "e", "f", "i", "n", "i", "t", "e">>,
      <<"p", "l", "u", "r", "a", "l", " ", "i", "n", "d", "e", "f", "i", "n", "i", "t", "e">>, <<"p", "l", "u", "r", "a", "l", " ", "d", "e", "f", "i", "n", "i", "t", "e">>>>

\* the label of slot i of the forms table of a CanonicalEntry
SlotLabel(canonical, i) ==
    IF canonical.type = "noun" THEN PositionLabels[i]
    ELSE IF canonical.type = "adjective"
    THEN [k \in DOMAIN canonical.forms.dict[i][1] |->
             IF canonical.forms.dict[i][1][k] = "_" THEN " "
             ELSE canonical.forms.dict[i][1][k]]
    ELSE canonical.forms.dict[i][1]

\* the first slot, in table order, whose value is s
FirstSlotOf(canonical, s) ==
    LET values == FormValues(canonical.forms)
    IN CHOOSE i \in DOMAIN values :
           values[i] = s /\ \A j \in 1..(i - 1) : values[j] /= s

\* the FormEntry f stored under s explains s by the CanonicalEntry of its base word
Faithful(s, f) ==
    /\ s /= f.base_word
    /\ s /= <<>>
    /\ s /= <<"-">>
    /\ Has(dictionary, f.base_word)
    /\ LET canonical == Get(dictionary, f.base_word)
       IN /\ ~IsFormEntry(canonical)
          /\ "forms" \in DOMAIN canonical
          /\ f.forms = canonical.forms
          /\ \E i \in DOMAIN FormValues(canonical.forms) :
                 FormValues(canonical.forms)[i] = s
          /\ f.form_type = SlotLabel(canonical, FirstSlotOf(canonical, s))

\* C18: every FormEntry of the lexicon is stored under a surface form that differs
\* from its base word and is neither empty nor '-', carries the forms table of the
\* CanonicalEntry of its base word, and names the first slot of that table whose
\* value is the surface form.
C18_FormEntriesFaithful ==
    pc \in {"process", "done"} =>
        \A i \in DOMAIN dictionary :
            IsFormEntry(dictionary[i].val) =>
                Faithful(dictionary[i].key, dictionary[i].val)

\* a compiled lexicon with a noun form named by position and an adjective form whose
\* slot name had an underscore
C18_Witness ==
    /\ pc = "done"
    /\ \E i, j \in DOMAIN dictionary :
           /\ IsFormEntry(dictionary[i].val)
           /\ dictionary[i].val.type = "noun"
           /\ dictionary[i].val.form_type = <<"p", "l", "u", "r", "a", "l", " ", "d", "e", "f", "i", "n", "i", "t", "e">>
           /\ IsFormEntry(dictionary[j].val)
           /\ dictionary[j].val.type = "adjective"
           /\ dictionary[j].val.form_type = <<"e", "t", "t", " ", "f", "o", "r", "m">>

----------------------------------------------------------------------------
(* Completion of the compilation *)

\* the candidate a word was resolved to
Resolved(w) == select_entry(w, CandidatesOf(w))

\* what the compiled lexicon holds: one CanonicalEntry per written form of the input,
\* with word, type, paradigm and group, and with a forms table exactly when forms
\* were generated; no entry comes from a raw entry that has no writtenForm
EntriesComplete ==
    /\ \A w \in RawWords :
           /\ Has(dictionary, w)
           /\ {"word", "type", "paradigm", "group"} \subseteq DOMAIN Get(dictionary, w)
           /\ ~IsFormEntry(Get(dictionary, w))
           /\ ("forms" \in DOMAIN Get(dictionary, w))
                  <=> generate_forms(w, Feat(Resolved(w), "paradigm", <<>>),
                                     Feat(Resolved(w), "partOfSpeech", <<>>)) /= None
    /\ \A i \in DOMAIN dictionary :
           IF IsFormEntry(dictionary[i].val)
           THEN dictionary[i].val.base_word \in RawWords
           ELSE dictionary[i].key \in RawWords
    /\ Len(all_entries) = Cardinality(RawWords)

\* C19: the compilation of every input ends without an exception, and its lexicon
\* has nothing from entries without writtenForm and a CanonicalEntry with word,
\* type, paradigm, group and no forms table for an entry that gets no forms.
C19_CompilationCompletes ==
    /\ pc /= "crashed"
    /\ pc = "done" => EntriesComplete

\* what the compiler does do: it raises on an empty written form resolved to a noun
\* whose first matching rule is nn_5n, and completes otherwise
C19_CompletesUnlessEmptyByEnding ==
    /\ pc = "crashed" => (NounInProcess /\ EmptyWordByEnding)
    /\ pc = "done" =>
           /\ EntriesComplete
           /\ \A w \in RawWords :
                  ~(/\ w = <<>>
                    /\ StartsWith(Feat(Resolved(w), "partOfSpeech", <<>>), <<"n", "n">>)
                    /\ generate_forms_raises(w, Feat(Resolved(w), "paradigm", <<>>),
                                             Feat(Resolved(w), "partOfSpeech", <<>>)))

----------------------------------------------------------------------------
(* The service only reads its tables *)

Tables == <<data, strong_verbs, ambiguous_words, ordinals>>

\* C20: once the service is started, a step of lookup, get_suggestions, get_stats,
\* format_word_card or of the handlers that call them leaves the lexicon, the
\* strong-verb table, the ambiguous-word table and the ordinal table as they are;
\* lookup reads nothing but these tables and its argument, so the lookup of every
\* word gives the same before and after.
C20_ServiceReadsOnly == [][pc = "serving" => UNCHANGED Tables]_vars

\* a card has been rendered from a found record, after a lookup, on a service of
\* which three tables have content
C20_Witness ==
    /\ pc = "serving"
    /\ result.op = "card"
    /\ data /= <<>>
    /\ strong_verbs /= <<>>
    /\ ambiguous_words /= <<>>
    /\ ordinals /= <<>>
    /\ lookup(result.word) /= None


----------------------------------------------------------------------------
(* C21: the report log under concurrent handlers *)

\* coroutines created so far: the submitted reports
Submitted == { h \in Handlers : handlers[h].pc /= "idle" }

\* coroutines whose save step has completed: reports is bound once the log is written
Saved == { h \in Handlers : "reports" \in DOMAIN handlers[h] }

\* the records the log holds after the ones it started with
NewRecords ==
    SubSeq(reported_words.content, Len(loaded_reports(log_at_start)) + 1,
           Len(reported_words.content))

Occurrences(seq, record) == Cardinality({ i \in 1..Len(seq) : seq[i] = record })

\* seq holds one record for each coroutine of the set, and nothing else
OneRecordEach(seq, set) ==
    /\ Len(seq) = Cardinality(set)
    /\ \A h \in set :
           Occurrences(seq, handlers[h].user_info)
               = Cardinality({ g \in set : handlers[g].user_info = handlers[h].user_info })

\* C21: once every submitted report's handler has completed its save step, the stored
\* log is the previous log, unchanged and in the same order, followed by exactly one
\* record for each submitted report, whatever the interleaving of the handlers
C21_LogKeepsEveryReport ==
    (Submitted /= {} /\ Submitted = Saved) =>
        /\ reported_words.state = "ok"
        /\ Len(reported_words.content) >= Len(loaded_reports(log_at_start))
        /\ SubSeq(reported_words.content, 1, Len(loaded_reports(log_at_start)))
               = loaded_reports(log_at_start)
        /\ OneRecordEach(NewRecords, Submitted)

\* both handlers awaited their answers together, the second saved first, and the log
\* had a record before
C21_Witness ==
    /\ Saved = Handlers
    /\ Len(loaded_reports(log_at_start)) = 1
    /\ handlers[1].user_info /= handlers[2].user_info
    /\ NewRecords[1] = handlers[2].user_info
    /\ NewRecords[2] = handlers[1].user_info

----------------------------------------------------------------------------
(* C22: a FormEntry against the CanonicalEntry of its base word *)

Compiled == pc = "done"

FormKeys == { i \in DOMAIN dictionary : IsFormEntry(dictionary[i].val) }

\* the entry stored under the base word of the FormEntry at position i
BaseOf(i) == Get(dictionary, dictionary[i].val.base_word)

HasBase(i) ==
    /\ Has(dictionary, dictionary[i].val.base_word)
    /\ IsBaseEntry(BaseOf(i))

\* C22: in the compiled lexicon every FormEntry has the type and the group label of
\* the CanonicalEntry stored under its base_word, for verbs, nouns and adjectives
C22_FormEntriesAgreeWithBase ==
    Compiled =>
        \A i \in FormKeys :
            /\ HasBase(i)
            /\ dictionary[i].val.type = BaseOf(i).type
            /\ dictionary[i].val.group = BaseOf(i).group

\* what the compiler keeps: type always, group for verbs and nouns; an adjective's
\* FormEntry is labelled 'Adjective' while its CanonicalEntry has the empty label
C22_AgreeButAdjectiveGroup ==
    Compiled =>
        \A i \in FormKeys :
            /\ HasBase(i)
            /\ dictionary[i].val.type = BaseOf(i).type
            /\ IF IsAdjective(dictionary[i].val)
               THEN dictionary[i].val.group = "Adjective" /\ BaseOf(i).group = ""
               ELSE dictionary[i].val.group = BaseOf(i).group

\* a compiled lexicon with FormEntries of a verb or a noun whose group label is not empty
C22_Witness ==
    /\ Compiled
    /\ \E i \in FormKeys : IsVerb(dictionary[i].val) /\ dictionary[i].val.group /= ""

----------------------------------------------------------------------------
(* C23: gender and declension label of a noun *)

BaseKeys == { i \in DOMAIN dictionary : IsBaseEntry(dictionary[i].val) }

NounBaseKeys == { i \in BaseKeys : IsNoun(dictionary[i].val) }

EttGroups == { "Declension 4 (ett, -n)", "Declension 5 (ett, no change)" }

EnGroups == { "Declension 1 (en, -or)", "Declension 2 (en, -ar)", "Declension 3 (en, -er)" }

HasGender(e) == "gender" \in DOMAIN e

\* gender is on the entries of type noun and no others, and is 'en' or 'ett'
GenderOnNouns ==
    \A i \in DOMAIN dictionary :
        LET e == dictionary[i].val
        IN  /\ HasGender(e) <=> IsNoun(e)
            /\ HasGender(e) => e.gender \in {"en", "ett"}

\* C23: on every noun CanonicalEntry the gender and the group label agree: 'ett' with
\* the labels of declensions 4 and 5, 'en' with the labels of declensions 1, 2 and 3;
\* gender is present on exactly the entries of type noun and is 'en' or 'ett'
C23_GenderAgreesWithGroup ==
    /\ \A i \in NounBaseKeys :
           LET e == dictionary[i].val
           IN  /\ e.group \in EttGroups => e.gender = "ett"
               /\ e.group \in EnGroups => e.gender = "en"
    /\ GenderOnNouns

\* the part about where gender is present and what it may be
C23_GenderOnNounsOnly == GenderOnNouns

\* an 'ett' label on an entry of gender 'en'
C23_EttLabelEnGender ==
    \E i \in NounBaseKeys :
        dictionary[i].val.group \in EttGroups /\ dictionary[i].val.gender = "en"

\* an 'en' label on an entry of gender 'ett'
C23_EnLabelEttGender ==
    \E i \in NounBaseKeys :
        dictionary[i].val.group \in EnGroups /\ dictionary[i].val.gender = "ett"

----------------------------------------------------------------------------
(* C24: the forms of a verb against its group label *)

VerbBaseKeys == { i \in BaseKeys : IsVerb(dictionary[i].val) }

HasTable(e) == "forms" \in DOMAIN e /\ IsDict(e.forms)

\* a table with the suffixes of group 1: -r on the infinitive, -ade, -at
Group1Table(e) ==
    /\ HasTable(e)
    /\ form_get(e.forms, <<"p", "r", "e", "s", "e", "n", "t">>, <<>>) = form_get(e.forms, <<"i", "n", "f", "i", "n", "i", "t", "i", "v", "e">>, <<>>) \o <<"r">>
    /\ EndsWith(form_get(e.forms, <<"p", "a", "s", "t">>, <<>>), <<"a", "d", "e">>)
    /\ EndsWith(form_get(e.forms, <<"s", "u", "p", "i", "n", "e">>, <<>>), <<"a", "t">>)

\* a table with the suffixes of group 2: -er, -te or -de, -t
Group2Table(e) ==
    /\ HasTable(e)
    /\ EndsWith(form_get(e.forms, <<"p", "r", "e", "s", "e", "n", "t">>, <<>>), <<"e", "r">>)
    /\ \/ EndsWith(form_get(e.forms, <<"p", "a", "s", "t">>, <<>>), <<"t", "e">>)
       \/ EndsWith(form_get(e.forms, <<"p", "a", "s", "t">>, <<>>), <<"d", "e">>)
    /\ EndsWith(form_get(e.forms, <<"s", "u", "p", "i", "n", "e">>, <<>>), <<"t">>)

UngeneratedGroups == { "Verb group 4 (strong)", "Verb group 3 (short)" }

\* the forms of the verb entry at position i agree with its group label
FormsAgreeWithGroup(i) ==
    LET e == dictionary[i].val
    IN  /\ Group1Table(e) => e.group = "Verb group 1 (-ar)"
        /\ Group2Table(e) => e.group = "Verb group 2 (-er)"
        /\ e.group \in UngeneratedGroups =>
               "forms" \notin DOMAIN e /\ FormEntriesOf(dictionary[i].key) = {}

\* C24: on every verb CanonicalEntry the generated forms agree with the group label: a
\* table with group-1 suffixes only under 'Verb group 1 (-ar)', one with group-2
\* suffixes only under 'Verb group 2 (-er)', and no table and no FormEntry for an entry
\* labelled 'Verb group 4 (strong)' or 'Verb group 3 (short)'
C24_VerbFormsAgreeWithGroup == \A i \in VerbBaseKeys : FormsAgreeWithGroup(i)

\* the same for the paradigms that do not carry the marker of group 4
C24_AgreeWithoutStrongMarker ==
    \A i \in VerbBaseKeys :
        ~Contains(dictionary[i].val.paradigm, <<"4">>) => FormsAgreeWithGroup(i)

\* verbs of groups 1 and 2 with their tables and FormEntries, and a short verb without
C24_Witness ==
    /\ pc = "done"
    /\ \E i \in VerbBaseKeys :
           LET e == dictionary[i].val
           IN  \/ Group1Table(e) /\ FormEntriesOf(dictionary[i].key) /= {}
               \/ Group2Table(e) /\ FormEntriesOf(dictionary[i].key) /= {}

\* an entry labelled strong that holds a table of group 1 and has FormEntries
C24_StrongWithGroup1Table ==
    \E i \in VerbBaseKeys :
        /\ dictionary[i].val.group = "Verb group 4 (strong)"
        /\ Group1Table(dictionary[i].val)
        /\ FormEntriesOf(dictionary[i].key) /= {}

====
